---- MODULE Spec2Model ----
(***************************************************************************)
(* Resilient fetch core of real_estate.mcp_server._helpers:                *)
(*   - CircuitBreaker (can_execute / record_success / record_failure),     *)
(*   - _fetch_xml / _fetch_json: circuit-breaker gate, tenacity retry      *)
(*     loop, exception handlers.                                           *)
(* Time is the value of time.time() in seconds; requests are asyncio tasks *)
(* that can switch only at the network await and the backoff sleep.        *)
(* Response cache of real_estate.cache_manager:                            *)
(*   - APICache (get / set / delete / clear / has / get_stats) over        *)
(*     cachetools.TTLCache,                                                *)
(*   - cached_fetch_xml / cached_fetch_json around the two fetch helpers.  *)
(***************************************************************************)
EXTENDS Integers, Sequences, FiniteSets, TLC

\* ------------------------------------------------------------------ constants
RETRY_MAX_ATTEMPTS == 3
CIRCUIT_BREAKER_FAILURE_THRESHOLD == 5
CIRCUIT_BREAKER_RECOVERY_TIMEOUT == 30
NOTIFICATION_WINDOW == 10
SLOW_RESPONSE_THRESHOLD == 10
DEFAULT_TTL == 300
DEFAULT_MAXSIZE == 100

\* Optional[float] None of _last_failure_time / _last_notification_time
None == -1

\* ------------------------------------------------------------------ bounds
\* the clock stops at MaxTime; record_failure is not taken beyond MaxFailures
MaxTime == 60
MaxFailures == 7
\* APICache.get is not taken once hits + misses has reached MaxLookups
MaxLookups == 3

\* amounts by which time.time() advances between two steps
TickDeltas == {10, 30}

\* the concurrent in-flight fetch calls (asyncio tasks)
Requests == {"r1", "r2"}

\* _fetch_xml and _fetch_json
Kinds == {"xml", "json"}

\* HTTP status codes of the non-2xx responses an attempt may receive
StatusCodes == {404, 500}

VARIABLES
    now,        \* time.time()
    cb,         \* _molit_circuit_breaker
    req,        \* per task: position inside _fetch_xml / _fetch_json and its locals
    ev,         \* what the last step did: breaker call made, value returned
    streak,     \* record_failure() calls since creation or the last record_success()
    reopenedAt, \* time of the last HalfOpen failure, None after a success/reset
    cache,      \* the APICache instance (cache_manager._cache_instance)
    cf,         \* per task: position inside cached_fetch_xml / cached_fetch_json
    cev,        \* what the last cache step did and returned
    hist,       \* per key: when it was last set, the order of last sets and last uses
    notified,   \* when the breaker last logged circuit_breaker_open_user_notification
    tool,       \* position inside _run_molit_xml_tool and the requests it has served
    applied     \* the pure helper applied last, its arguments and its result

fvars == <<now, cb, req, ev, streak, reopenedAt, notified>>
cvars == <<cache, cf, cev, hist>>
xvars == <<tool, applied>>
vars == <<now, cb, req, ev, streak, reopenedAt, notified, cache, cf, cev, hist, tool, applied>>

\* ------------------------------------------------------------------ CircuitBreaker
\* CircuitBreaker(): dataclass defaults
NewBreaker ==
    [state |-> "closed", failure_count |-> 0,
     last_failure_time |-> None, last_notification_time |-> None]

NoError == [error |-> "None", message |-> "None", n |-> 0]

BlockError == [error |-> "circuit_breaker_open", message |-> "temporarily_blocked", n |-> 0]

\* elapsed >= self.recovery_timeout, guarded by _last_failure_time is not None
RecoveryElapsedNever(b, t) == FALSE

RecoveryElapsedAtOnce(b, t) == b.last_failure_time # None

RecoveryElapsed(b, t) ==
    /\ b.last_failure_time # None
    /\ t - b.last_failure_time >= CIRCUIT_BREAKER_RECOVERY_TIMEOUT

\* a breaker that notifies on every blocked call
notifies_always(b, t) == TRUE

\* self._last_notification_time is None or now - self._last_notification_time >= 10.0
notifies(b, t) ==
    \/ b.last_notification_time = None
    \/ t - b.last_notification_time >= NOTIFICATION_WINDOW

\* the at-most-once-per-10-seconds notification stamp of a blocked call
NotifyStamp(b, t) ==
    IF notifies(b, t)
    THEN [b EXCEPT !.last_notification_time = t]
    ELSE b

\* can_execute at time t reaches logger.warning("circuit_breaker_open_user_notification")
warned(b, t) == b.state = "open" /\ ~RecoveryElapsed(b, t) /\ notifies(b, t)

\* CircuitBreaker.can_execute at time t: (can_proceed, error, breaker afterwards)
can_execute(b, t) ==
    IF b.state = "closed"
    THEN [allowed |-> TRUE, error |-> NoError, cb |-> b]
    ELSE IF b.state = "open"
    THEN IF RecoveryElapsed(b, t)
         THEN [allowed |-> TRUE, error |-> NoError,
               cb |-> [b EXCEPT !.state = "half_open"]]
         ELSE [allowed |-> FALSE, error |-> BlockError, cb |-> NotifyStamp(b, t)]
    ELSE [allowed |-> TRUE, error |-> NoError, cb |-> b]

\* CircuitBreaker.record_success
record_success_keeps_count(b) == [b EXCEPT !.state = "closed"]

record_success_on_trial(b) ==
    [b EXCEPT !.failure_count = IF b.state = "open" THEN @ ELSE 0,
              !.state = IF b.state = "open" THEN "half_open" ELSE "closed"]

record_success(b) == [b EXCEPT !.failure_count = 0, !.state = "closed"]

\* CircuitBreaker.record_failure at time t
record_failure_opens_late(b, t) ==
    LET c == b.failure_count + 1 IN
    [b EXCEPT !.failure_count = c,
              !.last_failure_time = t,
              !.state = IF b.state = "half_open" THEN "open"
                        ELSE IF c > CIRCUIT_BREAKER_FAILURE_THRESHOLD
                        THEN "open" ELSE @]

record_failure_second_chance(b, t) ==
    LET c == b.failure_count + 1 IN
    [b EXCEPT !.failure_count = c,
              !.last_failure_time = t,
              !.state = IF b.state = "half_open" THEN "half_open"
                        ELSE IF c >= CIRCUIT_BREAKER_FAILURE_THRESHOLD
                        THEN "open" ELSE @]

record_failure_first_stamp(b, t) ==
    LET c == b.failure_count + 1 IN
    [b EXCEPT !.failure_count = c,
              !.last_failure_time = IF b.state = "open" THEN @ ELSE t,
              !.state = IF b.state = "half_open" THEN "open"
                        ELSE IF c >= CIRCUIT_BREAKER_FAILURE_THRESHOLD
                        THEN "open" ELSE @]

record_failure(b, t) ==
    LET c == b.failure_count + 1 IN
    [b EXCEPT !.failure_count = c,
              !.last_failure_time = t,
              !.state = IF b.state = "half_open" THEN "open"
                        ELSE IF c >= CIRCUIT_BREAKER_FAILURE_THRESHOLD
                        THEN "open" ELSE @]

\* ------------------------------------------------------------------ history
NoRet ==
    [returned |-> FALSE, kind |-> "none", body |-> "None", error |-> NoError,
     attempts |-> 0, fails |-> 0, last |-> "none", nfail |-> 0, nsucc |-> 0,
     charged |-> 0, admitted |-> "none", before |-> NewBreaker, intact |-> FALSE,
     timeouts |-> 0, non2xx |-> 0, start |-> None, slow |-> FALSE]

Event(op, by, pre, res, ret) ==
    [op |-> op, by |-> by, pre |-> pre, allowed |-> res.allowed,
     error |-> res.error, ret |-> ret]

Plain == [allowed |-> TRUE, error |-> NoError]

\* failure counter increments made by one step
Charged(b, b2) ==
    IF b2.failure_count > b.failure_count
    THEN b2.failure_count - b.failure_count ELSE 0

Idle ==
    [pc |-> "idle", kind |-> "none", attempts |-> 0, fails |-> 0, last |-> "none",
     nfail |-> 0, nsucc |-> 0, charged |-> 0, admitted |-> "none",
     before |-> NewBreaker, intact |-> FALSE, timeouts |-> 0, non2xx |-> 0, start |-> None,
     slow |-> FALSE]

\* a call in flight loses sight of the breaker it was admitted under as soon as
\* somebody else changes the breaker to b2
Disturbed(q, b2) ==
    IF q.pc # "idle" /\ b2 # cb
    THEN [q EXCEPT !.before = NewBreaker, !.intact = FALSE]
    ELSE q

\* req after `actor` became `mine` and the breaker became b2
ReqAfter(actor, mine, b2) ==
    [x \in Requests |-> IF x = actor THEN mine ELSE Disturbed(req[x], b2)]

\* history kept with the breaker, for the call a step makes
StreakAfter(call, s) ==
    IF call = "record_failure" THEN s + 1
    ELSE IF call = "record_success" THEN 0
    ELSE s

ReopenedAfter(call, b, at) ==
    IF call = "record_failure" /\ b.state = "half_open" THEN now
    ELSE IF call = "record_success" THEN None
    ELSE at

\* the notifications of the breaker in use: at, the time of the last one (None
\* before the first); same, how many were logged at that time
NoNotification == [at |-> None, same |-> 0]

\* the notifications after can_execute was called on b at time t
NotifiedAfter(n, b, t) ==
    IF ~warned(b, t) THEN n
    ELSE IF n.at = t THEN [n EXCEPT !.same = @ + 1]
    ELSE [at |-> t, same |-> 1]

\* what a tool runner returned: the error of the dict ("None": a result dict),
\* the exception that left it instead ("None": it returned), the exception its
\* parser raised, and the number of records in the result
ToolResult(error, raised, parser_raised, count) ==
    [error |-> error, raised |-> raised, parser_raised |-> parser_raised, count |-> count]

\* the arguments a runner was last called with that its checks look at, and
\* whether DATA_GO_KR_API_KEY is set
ToolArgs(region_code, year_month, num_of_rows, api_key) ==
    [region_code |-> region_code, year_month |-> year_month,
     num_of_rows |-> num_of_rows, api_key |-> api_key]

\* no tool runner running; served, at: the request whose fetch last returned a
\* body, and when
NoTool ==
    [pc |-> "idle", key |-> "none", family |-> "none", served |-> "none", at |-> None,
     args |-> ToolArgs("11440", <<"2", "0", "2", "5", "0", "1">>, 100, "test-key"),
     result |-> ToolResult("None", "None", "None", 0)]

\* no helper applied yet
NoApplication == [fn |-> "none"]

\* ------------------------------------------------------------------ cachetools.TTLCache
\* the keys generate_cache_key yields for the requests made
CacheKeys == {"k1", "k2", "k3"}

\* ttl and maxsize arguments of the APICache instances built
Ttls == {20}
Maxsizes == {2}

\* a (response, error) tuple
Tuple(response, error) == [response |-> response, error |-> error]

\* the tuples callers hand to APICache.set: a success and a failure
CacheValues ==
    {Tuple("xml_text", NoError),
     Tuple("None", [error |-> "network_error", message |-> "network_error_exc", n |-> 0])}

\* APICache(ttl, maxsize): links is TTLCache's OrderedDict of links with the
\* stored values, least recently used first; chain is its linked list of keys,
\* earliest expiry first
APICache(ttl, maxsize) ==
    [made |-> TRUE, ttl |-> ttl, maxsize |-> maxsize, links |-> <<>>,
     chain |-> <<>>, hits |-> 0, misses |-> 0]

\* _cache_instance = None
NoCache ==
    [made |-> FALSE, ttl |-> 0, maxsize |-> 0, links |-> <<>>,
     chain |-> <<>>, hits |-> 0, misses |-> 0]

Link(k, v, e) == [key |-> k, value |-> v, expires |-> e]

HasLink(c, k) == \E i \in DOMAIN c.links : c.links[i].key = k

LinkOf(c, k) == c.links[CHOOSE i \in DOMAIN c.links : c.links[i].key = k]

Keys(c) == {c.links[i].key : i \in DOMAIN c.links}

Entries(c) == {c.links[i] : i \in DOMAIN c.links}

WithoutKey(seq, k) == SelectSeq(seq, LAMBDA x : x # k)

WithoutLink(links, k) == SelectSeq(links, LAMBDA l : l.key # k)

\* a lookup that leaves the order of the links alone
getlink_keeps_order(c, k) == c

\* TTLCache.__getlink: self.__links.move_to_end(key)
getlink(c, k) == [c EXCEPT !.links = Append(WithoutLink(@, k), LinkOf(c, k))]

\* an entry that outlives its ttl by one instant
expired_late(link, t) == ~(t <= link.expires)

\* not (self.timer() < link.expires)
expired(link, t) == ~(t < link.expires)

\* TTLCache.__getitem__: KeyError for a missing and for an expired key
getitem(c, k, t) ==
    IF ~HasLink(c, k) THEN [found |-> FALSE, value |-> Tuple("None", NoError), cache |-> c]
    ELSE IF expired(LinkOf(c, k), t)
         THEN [found |-> FALSE, value |-> Tuple("None", NoError), cache |-> getlink(c, k)]
         ELSE [found |-> TRUE, value |-> LinkOf(c, k).value, cache |-> getlink(c, k)]

\* TTLCache.expire: unlink from the head of the chain while the head has expired
RECURSIVE expire(_, _)
expire(c, t) ==
    IF c.chain # <<>> /\ expired(LinkOf(c, Head(c.chain)), t)
    THEN expire([c EXCEPT !.chain = Tail(@),
                          !.links = WithoutLink(@, Head(c.chain))], t)
    ELSE c

\* TTLCache.popitem: drop the first key of the OrderedDict of links
popitem(c, t) ==
    LET c1 == expire(c, t)
        k == c1.links[1].key
    IN  [c1 EXCEPT !.links = Tail(@), !.chain = WithoutKey(@, k)]

\* a store that never makes room
make_room_never(c, k, t) == c

\* Cache.__setitem__: while self.__currsize + size > maxsize: self.popitem()
RECURSIVE make_room(_, _, _)
make_room(c, k, t) ==
    IF ~HasLink(c, k) /\ Len(c.links) + 1 > c.maxsize /\ c.links # <<>>
    THEN make_room(popitem(c, t), k, t)
    ELSE c

\* TTLCache.__setitem__: expire, make room, store, link at the end with
\* expires = time + ttl
setitem(c, k, v, t) ==
    LET c1 == make_room(expire(c, t), k, t)
    IN  [c1 EXCEPT !.links = Append(WithoutLink(@, k), Link(k, v, t + c.ttl)),
                   !.chain = Append(WithoutKey(@, k), k)]

\* TTLCache.__delitem__: KeyError for a missing key, and for an expired one
\* after it has been removed
delitem(c, k) ==
    [c EXCEPT !.links = WithoutLink(@, k), !.chain = WithoutKey(@, k)]

\* TTLCache.__len__: the expired entries are removed before counting
len(c, t) == LET c1 == expire(c, t) IN [n |-> Len(c1.links), cache |-> c1]

\* ------------------------------------------------------------------ APICache
\* a get that books nothing
get_uncounted(c, k, t) == getitem(c, k, t)

\* APICache.get
get(c, k, t) ==
    LET g == getitem(c, k, t)
    IN  IF g.found THEN [g EXCEPT !.cache = [@ EXCEPT !.hits = @ + 1]]
        ELSE [g EXCEPT !.cache = [@ EXCEPT !.misses = @ + 1]]

\* APICache.set
set(c, k, v, t) == setitem(c, k, v, t)

\* APICache.delete
delete(c, k) == delitem(c, k)

\* APICache.clear
clear(c) == [c EXCEPT !.links = <<>>, !.chain = <<>>]

\* APICache.has
has(c, k, t) == getitem(c, k, t)

\* CacheStats.hit_rate, the quotient kept as numerator and denominator
hit_rate(c) ==
    LET total == c.hits + c.misses
    IN  IF total = 0 THEN [num |-> 0, den |-> 1] ELSE [num |-> c.hits, den |-> total]

NoStats == [hits |-> 0, misses |-> 0, hit_rate |-> [num |-> 0, den |-> 1], size |-> 0]

\* APICache.get_stats
get_stats(c, t) ==
    [stats |-> [hits |-> c.hits, misses |-> c.misses, hit_rate |-> hit_rate(c),
                size |-> len(c, t).n],
     cache |-> len(c, t).cache]

\* ------------------------------------------------------------------ cache history
\* the method called last, what it returned, and the unexpired links it dropped
\* to make room
CacheEvent(op, found, value, stats, evicted) ==
    [op |-> op, key |-> "none", found |-> found, value |-> value, stats |-> stats,
     evicted |-> evicted]

NoCacheEvent == CacheEvent("init", FALSE, Tuple("None", NoError), NoStats, {})

\* a step of cached_fetch_xml / cached_fetch_json for key k: the lookup hit or
\* missed, and the tuple returned when the step is the call's last
CachedEvent(op, k, value, evicted) ==
    [op |-> op, key |-> k, found |-> op = "cached_hit", value |-> value,
     stats |-> NoStats, evicted |-> evicted]

\* the links of c that c2 no longer holds
Dropped(c, c2) == {c.links[i] : i \in {j \in DOMAIN c.links : c.links[j].key \notin Keys(c2)}}

\* of the keys the cache holds: inserted, the time of the last set (None for a
\* key not held); sets, uses: the keys in the order of their last set / of their
\* last set or successful read; gets: number of APICache.get calls so far;
\* first: the body returned by the cached fetch that last fetched the key with
\* success, "None" once the entry has been evicted; fetches: number of calls of
\* _fetch_xml / _fetch_json made by cached fetches
NoHistory ==
    [inserted |-> [k \in CacheKeys |-> None], sets |-> <<>>, uses |-> <<>>, gets |-> 0,
     first |-> [k \in CacheKeys |-> "None"], fetches |-> 0]

Touch(seq, k) == Append(WithoutKey(seq, k), k)

\* the history of the keys c still holds
Held(h, c) ==
    [h EXCEPT !.inserted = [k \in CacheKeys |-> IF k \in Keys(c) THEN @[k] ELSE None],
              !.sets = SelectSeq(@, LAMBDA k : k \in Keys(c)),
              !.uses = SelectSeq(@, LAMBDA k : k \in Keys(c))]

\* the key of the last set
LastSet(h) == h.sets[Len(h.sets)]

\* the first key of seq among the keys K
RECURSIVE First(_, _)
First(seq, K) ==
    IF seq = <<>> THEN "none"
    ELSE IF Head(seq) \in K THEN Head(seq)
    ELSE First(Tail(seq), K)

\* cached_fetch_xml / cached_fetch_json not running in the task
NoCall == [pc |-> "idle", key |-> "none", kind |-> "none"]

\* the keys get would find at time t
LiveKeys(c, t) == {k \in CacheKeys : getitem(c, k, t).found}

\* ------------------------------------------------------------------ Init
Init ==
    /\ now = 0
    /\ cb = NewBreaker
    /\ req = [r \in Requests |-> Idle]
    /\ ev = Event("init", "direct", "closed", Plain, NoRet)
    /\ streak = 0
    /\ reopenedAt = None
    /\ cache = NoCache
    /\ cf = [r \in Requests |-> NoCall]
    /\ cev = NoCacheEvent
    /\ hist = NoHistory
    /\ notified = NoNotification
    /\ tool = NoTool
    /\ applied = NoApplication

\* ------------------------------------------------------------------ time
Tick(d) ==
    /\ now + d <= MaxTime
    /\ now' = now + d
    /\ ev' = Event("tick", "direct", cb.state, Plain, NoRet)
    /\ UNCHANGED <<cb, req, streak, reopenedAt, notified>>

\* ------------------------------------------------------------------ direct breaker calls
CanExecute ==
    LET res == can_execute(cb, now) IN
    /\ cb' = res.cb
    /\ ev' = Event("can_execute", "direct", cb.state, res, NoRet)
    /\ req' = ReqAfter("direct", Idle, res.cb)
    /\ notified' = NotifiedAfter(notified, cb, now)
    /\ UNCHANGED <<now, streak, reopenedAt>>

RecordSuccess ==
    /\ cb' = record_success(cb)
    /\ ev' = Event("record_success", "direct", cb.state, Plain, NoRet)
    /\ streak' = StreakAfter("record_success", streak)
    /\ reopenedAt' = ReopenedAfter("record_success", cb, reopenedAt)
    /\ req' = ReqAfter("direct", Idle, cb')
    /\ UNCHANGED <<now, notified>>

RecordFailure ==
    /\ cb.failure_count < MaxFailures
    /\ cb' = record_failure(cb, now)
    /\ ev' = Event("record_failure", "direct", cb.state, Plain, NoRet)
    /\ streak' = StreakAfter("record_failure", streak)
    /\ reopenedAt' = ReopenedAfter("record_failure", cb, reopenedAt)
    /\ req' = ReqAfter("direct", Idle, cb')
    /\ UNCHANGED <<now, notified>>

\* _reset_circuit_breaker
ResetCircuitBreaker ==
    /\ cb # NewBreaker
    /\ cb' = NewBreaker
    /\ ev' = Event("reset", "direct", cb.state, Plain, NoRet)
    /\ streak' = 0
    /\ reopenedAt' = None
    /\ req' = ReqAfter("direct", Idle, cb')
    /\ notified' = NoNotification
    /\ UNCHANGED now


\* ------------------------------------------------------------------ retry policy
\* what one network attempt (client.get, raise_for_status, .text / .json()) ends in
Outcomes(k) ==
    {"ok", "timeout", "connect_error", "http_error"}
        \cup (IF k = "json" THEN {"bad_json"} ELSE {})

Transient == {"timeout", "connect_error"}

\* a retry condition that holds for every BaseException
retry_base_exception(o) == o # "ok"

\* AsyncRetrying(stop=..., wait=..., reraise=True): no retry= argument is given, so
\* tenacity's default retry_if_exception_type() applies and every Exception an
\* attempt raises (HTTPStatusError and ValueError included) asks for a retry;
\* asyncio.CancelledError is a BaseException and no Exception
retry(o) == o \notin {"ok", "cancelled"}

\* a stop condition that gives up one attempt early
stop_after_attempt_early(n) == n >= RETRY_MAX_ATTEMPTS - 1

\* stop_after_attempt(_RETRY_MAX_ATTEMPTS)
stop_after_attempt(n) == n >= RETRY_MAX_ATTEMPTS

\* if not can_proceed: return None, block_error
blocked_never(res) == FALSE

blocked(res) == ~res.allowed

\* the except clause inside the attempt: logs http_request_timeout and re-raises;
\* which breaker method it calls
attempt_handler_charging(o) == "record_failure"

attempt_handler(o) == "none"

\* the except clauses around the retry loop, for the exception re-raised after the
\* last attempt: the breaker method called and the error dict returned
except_handler_timeout_uncharged(k, o) ==
    IF o = "timeout"
    THEN [call |-> "none",
          error |-> [error |-> "network_error", message |-> "timed_out_after_n_attempts",
                     n |-> RETRY_MAX_ATTEMPTS]]
    ELSE IF o = "http_error"
    THEN [call |-> "record_failure",
          error |-> [error |-> "network_error", message |-> "http_error_status", n |-> 0]]
    ELSE IF o = "bad_json" /\ k = "json"
    THEN [call |-> "none",
          error |-> [error |-> "parse_error", message |-> "json_parse_failed", n |-> 0]]
    ELSE [call |-> "record_failure",
          error |-> [error |-> "network_error", message |-> "network_error_exc", n |-> 0]]

except_handler_charging_parse(k, o) ==
    IF o = "timeout"
    THEN [call |-> "record_failure",
          error |-> [error |-> "network_error", message |-> "timed_out_after_n_attempts",
                     n |-> RETRY_MAX_ATTEMPTS]]
    ELSE IF o = "http_error"
    THEN [call |-> "record_failure",
          error |-> [error |-> "network_error", message |-> "http_error_status", n |-> 0]]
    ELSE IF o = "bad_json"
    THEN [call |-> "record_failure",
          error |-> [error |-> "parse_error", message |-> "json_parse_failed", n |-> 0]]
    ELSE [call |-> "record_failure",
          error |-> [error |-> "network_error", message |-> "network_error_exc", n |-> 0]]

except_handler(k, o) ==
    IF o = "timeout"
    THEN [call |-> "record_failure",
          error |-> [error |-> "network_error", message |-> "timed_out_after_n_attempts",
                     n |-> RETRY_MAX_ATTEMPTS]]
    ELSE IF o = "http_error"
    THEN [call |-> "record_failure",
          error |-> [error |-> "network_error", message |-> "http_error_status", n |-> 0]]
    ELSE IF o = "bad_json" /\ k = "json"
    THEN [call |-> "none",
          error |-> [error |-> "parse_error", message |-> "json_parse_failed", n |-> 0]]
    ELSE [call |-> "record_failure",
          error |-> [error |-> "network_error", message |-> "network_error_exc", n |-> 0]]

\* f"HTTP error: {exc.response.status_code}": the message carries the status
with_status(e, status) ==
    IF e.message = "http_error_status" THEN [e EXCEPT !.n = status] ELSE e

\* 1 when the attempt raised httpx.TimeoutException
timed_out(o) == IF o = "timeout" THEN 1 ELSE 0

\* 1 when raise_for_status() raised httpx.HTTPStatusError on the attempt's response
status_error(o) == IF o = "http_error" THEN 1 ELSE 0

\* the status code of the response behind outcome o
Statuses(o) == IF o = "http_error" THEN StatusCodes ELSE {0}

\* duration_ms > _SLOW_RESPONSE_THRESHOLD * 1000, with duration = time.time() - start_time
slow_response(start, t) == t - start > SLOW_RESPONSE_THRESHOLD

\* the breaker method the success path calls, after the slow-response warning
success_call_unless_slow(slow) == IF slow THEN "record_failure" ELSE "record_success"

success_call(slow) == "record_success"

\* the breaker after a fetch step has called the named method on it
Apply(call, b, t) ==
    IF call = "record_failure" THEN record_failure(b, t)
    ELSE IF call = "record_success" THEN record_success(b)
    ELSE b

\* the value a call hands back, with the counters of the call q
Ret(q, body, err) ==
    [returned |-> TRUE, kind |-> q.kind, body |-> body, error |-> err,
     attempts |-> q.attempts, fails |-> q.fails, last |-> q.last,
     nfail |-> q.nfail, nsucc |-> q.nsucc, charged |-> q.charged,
     admitted |-> q.admitted, before |-> q.before, intact |-> q.intact,
     timeouts |-> q.timeouts, non2xx |-> q.non2xx, start |-> None, slow |-> q.slow]

\* q after one of its steps called `call` and moved the breaker from b to b2
Counted(q, call, b, b2) ==
    [q EXCEPT !.nfail = @ + (IF call = "record_failure" THEN 1 ELSE 0),
              !.nsucc = @ + (IF call = "record_success" THEN 1 ELSE 0),
              !.charged = @ + Charged(b, b2)]

\* ------------------------------------------------------------------ _fetch_xml / _fetch_json
\* entry: the breaker is asked; a blocked call returns at once, an admitted one
\* starts attempt 1 and suspends in client.get
FetchBlocked(r, k) ==
    LET res == can_execute(cb, now)
        q == Counted([Idle EXCEPT !.kind = k], "none", cb, res.cb)
    IN
    /\ req[r].pc = "idle"
    /\ blocked(res)
    /\ cb' = res.cb
    /\ req' = ReqAfter(r, Idle, cb')
    /\ ev' = Event("can_execute", r, cb.state, res, Ret(q, "None", res.error))
    /\ notified' = NotifiedAfter(notified, cb, now)
    /\ UNCHANGED <<now, streak, reopenedAt>>

FetchStart(r, k) ==
    LET res == can_execute(cb, now)
        q == Counted([Idle EXCEPT !.kind = k], "none", cb, res.cb)
    IN
    /\ req[r].pc = "idle"
    /\ ~blocked(res)
    /\ cb' = res.cb
    /\ req' = ReqAfter(r, [q EXCEPT !.pc = "io", !.attempts = 1,
                                     !.admitted = res.cb.state,
                                     !.before = cb, !.intact = TRUE,
                                     !.start = now], cb')
    /\ ev' = Event("can_execute", r, cb.state, res, NoRet)
    /\ notified' = NotifiedAfter(notified, cb, now)
    /\ UNCHANGED <<now, streak, reopenedAt>>

\* the attempt returns a 2xx response with a usable body
AttemptSucceeds(r) ==
    LET slow == slow_response(req[r].start, now)
        call == success_call(slow)
        b2 == Apply(call, cb, now)
        q == Counted([req[r] EXCEPT !.last = "ok", !.slow = slow], call, cb, b2)
    IN
    /\ req[r].pc = "io"
    /\ b2.failure_count <= MaxFailures
    /\ cb' = b2
    /\ req' = ReqAfter(r, Idle, cb')
    /\ ev' = Event(call, r, cb.state, Plain,
                   Ret(q, IF q.kind = "xml" THEN "xml_text" ELSE "json_data", NoError))
    /\ streak' = StreakAfter(call, streak)
    /\ reopenedAt' = ReopenedAfter(call, cb, reopenedAt)
    /\ UNCHANGED <<now, notified>>

\* the attempt raises and tenacity schedules another one: backoff sleep
AttemptFailsRetry(r, o) ==
    \E status \in Statuses(o) :
    LET call == attempt_handler(o)
        b2 == Apply(call, cb, now)
        q == Counted([req[r] EXCEPT !.last = o, !.fails = @ + 1,
                                    !.timeouts = @ + timed_out(o),
                                     !.non2xx = @ + status_error(o)], call, cb, b2)
    IN
    /\ req[r].pc = "io"
    /\ o \in Outcomes(req[r].kind) \ {"ok"}
    /\ retry(o) /\ ~stop_after_attempt(req[r].attempts)
    /\ b2.failure_count <= MaxFailures
    /\ cb' = b2
    /\ req' = ReqAfter(r, [q EXCEPT !.pc = "sleep"], cb')
    /\ ev' = Event(call, r, cb.state, Plain, NoRet)
    /\ streak' = StreakAfter(call, streak)
    /\ reopenedAt' = ReopenedAfter(call, cb, reopenedAt)
    /\ UNCHANGED <<now, notified>>

\* a retry loop that asks the breaker before every attempt
SleepDoneAsking(r) ==
    LET res == can_execute(cb, now)
    IN
    /\ req[r].pc = "sleep"
    /\ cb' = res.cb
    /\ req' = ReqAfter(r, IF blocked(res) THEN Idle
                          ELSE [req[r] EXCEPT !.pc = "io", !.attempts = @ + 1], cb')
    /\ ev' = Event("can_execute", r, cb.state, res,
                   IF blocked(res) THEN Ret(req[r], "None", res.error) ELSE NoRet)
    /\ UNCHANGED <<now, streak, reopenedAt, notified>>

\* the backoff sleep ends: next attempt, the breaker is not asked again
SleepDone(r) ==
    /\ req[r].pc = "sleep"
    /\ req' = [req EXCEPT ![r] = [@ EXCEPT !.pc = "io", !.attempts = @ + 1]]
    /\ ev' = Event("none", r, cb.state, Plain, NoRet)
    /\ UNCHANGED <<now, cb, streak, reopenedAt, notified>>

\* the attempt raises and tenacity re-raises it (reraise=True): except clause, return
AttemptFailsFinal(r, o) ==
    \E status \in Statuses(o) :
    LET call0 == attempt_handler(o)
        h == except_handler(req[r].kind, o)
        b1 == Apply(call0, cb, now)
        b2 == Apply(h.call, b1, now)
        q0 == Counted([req[r] EXCEPT !.last = o, !.fails = @ + 1,
                                     !.timeouts = @ + timed_out(o),
                                     !.non2xx = @ + status_error(o)], call0, cb, b1)
        q == Counted(q0, h.call, b1, b2)
    IN
    /\ req[r].pc = "io"
    /\ o \in Outcomes(req[r].kind) \ {"ok"}
    /\ ~retry(o) \/ stop_after_attempt(req[r].attempts)
    /\ b2.failure_count <= MaxFailures
    /\ cb' = b2
    /\ req' = ReqAfter(r, Idle, cb')
    /\ ev' = Event(h.call, r, cb.state, Plain,
                   Ret(q, "None", with_status(h.error, status)))
    /\ streak' = StreakAfter(h.call, StreakAfter(call0, streak))
    /\ reopenedAt' = ReopenedAfter(h.call, b1, ReopenedAfter(call0, cb, reopenedAt))
    /\ UNCHANGED <<now, notified>>

\* the task is cancelled while it waits in client.get or in the backoff sleep:
\* asyncio.CancelledError is raised there; tenacity does not retry it and no
\* except clause of the helper matches it, so it leaves the helper
Cancel(r) ==
    LET again == /\ req[r].pc = "io" /\ retry("cancelled")
                 /\ ~stop_after_attempt(req[r].attempts)
    IN
    /\ req[r].pc \in {"io", "sleep"}
    /\ req' = [req EXCEPT ![r] = IF again
                                 THEN [@ EXCEPT !.pc = "sleep", !.last = "cancelled",
                                                !.fails = @ + 1]
                                 ELSE Idle]
    /\ ev' = Event("cancelled", r, cb.state, Plain,
                   [NoRet EXCEPT !.kind = req[r].kind, !.attempts = req[r].attempts,
                                 !.last = req[r].pc])
    /\ UNCHANGED <<now, cb, streak, reopenedAt, notified>>

\* ------------------------------------------------------------------ specification
\* the steps of the fetch calls of the tasks R
FetchSteps(R) ==
    \/ \E r \in R, k \in Kinds : FetchBlocked(r, k)
    \/ \E r \in R, k \in Kinds : FetchStart(r, k)
    \/ \E r \in R : AttemptSucceeds(r)
    \/ \E r \in R, o \in Outcomes("json") : AttemptFailsRetry(r, o)
    \/ \E r \in R : SleepDone(r)
    \/ \E r \in R, o \in Outcomes("json") : AttemptFailsFinal(r, o)

\* one fetch call followed step by step; every other user of the process-wide
\* breaker appears as its breaker calls, made at any moment
Next ==
    \/ \E d \in TickDeltas : Tick(d) /\ UNCHANGED <<cvars, xvars>>
    \/ CanExecute /\ UNCHANGED <<cvars, xvars>>
    \/ RecordSuccess /\ UNCHANGED <<cvars, xvars>>
    \/ RecordFailure /\ UNCHANGED <<cvars, xvars>>
    \/ ResetCircuitBreaker /\ UNCHANGED <<cvars, xvars>>
    \/ \E k \in Kinds : FetchBlocked("r1", k) /\ UNCHANGED <<cvars, xvars>>
    \/ \E k \in Kinds : FetchStart("r1", k) /\ UNCHANGED <<cvars, xvars>>
    \/ AttemptSucceeds("r1") /\ UNCHANGED <<cvars, xvars>>
    \/ \E o \in Outcomes("json") : AttemptFailsRetry("r1", o) /\ UNCHANGED <<cvars, xvars>>
    \/ SleepDone("r1") /\ UNCHANGED <<cvars, xvars>>
    \/ \E o \in Outcomes("json") : AttemptFailsFinal("r1", o) /\ UNCHANGED <<cvars, xvars>>

Spec == Init /\ [][Next]_vars

\* ------------------------------------------------------------------ APICache calls
Get(k) ==
    LET g == get(cache, k, now)
    IN
    /\ cache.made
    /\ cache.hits + cache.misses < MaxLookups
    /\ cache' = g.cache
    /\ cev' = CacheEvent("get", g.found, g.value, NoStats, {})
    /\ hist' = [hist EXCEPT !.gets = @ + 1,
                            !.uses = IF g.found THEN Touch(@, k) ELSE @]
    /\ UNCHANGED cf /\ UNCHANGED fvars

Set(k, v) ==
    /\ cache.made
    /\ cache' = set(cache, k, v, now)
    /\ cev' = CacheEvent("set", FALSE, Tuple("None", NoError), NoStats,
                         Dropped(expire(cache, now), cache'))
    /\ hist' = Held([hist EXCEPT !.inserted[k] = now, !.sets = Touch(@, k),
                                 !.uses = Touch(@, k)], cache')
    /\ UNCHANGED cf /\ UNCHANGED fvars

Delete(k) ==
    /\ cache.made
    /\ cache' = delete(cache, k)
    /\ cev' = CacheEvent("delete", FALSE, Tuple("None", NoError), NoStats, {})
    /\ hist' = Held(hist, cache')
    /\ UNCHANGED cf /\ UNCHANGED fvars

Clear ==
    /\ cache.made
    /\ cache' = clear(cache)
    /\ cev' = CacheEvent("clear", FALSE, Tuple("None", NoError), NoStats, {})
    /\ hist' = Held(hist, cache')
    /\ UNCHANGED cf /\ UNCHANGED fvars

Has(k) ==
    LET h == has(cache, k, now)
    IN
    /\ cache.made
    /\ cache' = h.cache
    /\ cev' = CacheEvent("has", h.found, Tuple("None", NoError), NoStats, {})
    /\ hist' = [hist EXCEPT !.uses = IF h.found THEN Touch(@, k) ELSE @]
    /\ UNCHANGED cf /\ UNCHANGED fvars

GetStats ==
    LET g == get_stats(cache, now)
    IN
    /\ cache.made
    /\ cache' = g.cache
    /\ cev' = CacheEvent("get_stats", FALSE, Tuple("None", NoError), g.stats, {})
    /\ hist' = Held(hist, cache')
    /\ UNCHANGED cf /\ UNCHANGED fvars

\* an APICache(ttl, maxsize) instance and its callers
InitCache ==
    /\ now = 0
    /\ cb = NewBreaker
    /\ req = [r \in Requests |-> Idle]
    /\ ev = Event("init", "direct", "closed", Plain, NoRet)
    /\ streak = 0
    /\ reopenedAt = None
    /\ cache \in {APICache(ttl, maxsize) : ttl \in Ttls, maxsize \in Maxsizes}
    /\ cf = [r \in Requests |-> NoCall]
    /\ cev = NoCacheEvent
    /\ hist = NoHistory
    /\ notified = NoNotification
    /\ tool = NoTool
    /\ applied = NoApplication

NextCache ==
    \/ \E d \in TickDeltas : Tick(d) /\ UNCHANGED <<cvars, xvars>>
    \/ \E k \in CacheKeys : Get(k) /\ UNCHANGED xvars
    \/ \E k \in CacheKeys, v \in CacheValues : Set(k, v) /\ UNCHANGED xvars
    \/ \E k \in CacheKeys : Delete(k) /\ UNCHANGED xvars
    \/ Clear /\ UNCHANGED xvars
    \/ \E k \in CacheKeys : Has(k) /\ UNCHANGED xvars
    \/ GetStats /\ UNCHANGED xvars

SpecCache == InitCache /\ [][NextCache]_vars

\* ------------------------------------------------------------------ cached_fetch_xml / cached_fetch_json
\* the keys of the requests the cached fetches are made for
CachedKeys == {"k1", "k2"}

\* how an attempt of a fetch made by a cached fetch may fail
CachedFailures == {"timeout"}

\* get_cache(): the instance, built with the defaults when there is none
get_cache(c) == IF c.made THEN c ELSE APICache(DEFAULT_TTL, DEFAULT_MAXSIZE)

\* a lookup whose result is never used
cache_hit_never(g) == FALSE

\* if cached is not None: response, error = cached; if error is None: return
cache_hit(g) == g.found /\ g.value.error = NoError

\* a wrapper that stores whatever the fetch returned
should_cache_always(v) == TRUE

\* a wrapper that stores nothing
should_cache_never(v) == FALSE

\* if error is None and response is not None: cache.set(cache_key, (response, error))
should_cache(v) == v.error = NoError /\ v.response # "None"

\* the history after a cached fetch has returned v for key k and the store has
\* dropped the links E
HistoryAfterReturn(h, k, v, stored, E) ==
    LET gone == {l.key : l \in E}
        h1 == [h EXCEPT !.inserted = [x \in CacheKeys |-> IF x \in gone THEN None ELSE @[x]],
                        !.first = [x \in CacheKeys |-> IF x \in gone THEN "None" ELSE @[x]],
                        !.sets = SelectSeq(@, LAMBDA x : x \notin gone),
                        !.uses = SelectSeq(@, LAMBDA x : x \notin gone)]
    IN  IF v.error = NoError
        THEN [h1 EXCEPT !.inserted[k] = now, !.first[k] = v.response,
                        !.sets = IF stored THEN Touch(@, k) ELSE @,
                        !.uses = IF stored THEN Touch(@, k) ELSE @]
        ELSE h1

\* the lookup finds a successful entry: it is returned
CachedHit(r, kind, k) ==
    LET g == get(get_cache(cache), k, now)
    IN
    /\ cf[r].pc = "idle" /\ req[r].pc = "idle"
    /\ get_cache(cache).hits + get_cache(cache).misses < MaxLookups
    /\ cache_hit(g)
    /\ cache' = g.cache
    /\ cev' = CachedEvent("cached_hit", k, g.value, {})
    /\ hist' = [hist EXCEPT !.gets = @ + 1, !.uses = Touch(@, k)]
    /\ UNCHANGED cf /\ UNCHANGED fvars

\* a wrapper that starts no fetch for a key another task is fetching
single_flight_guard(c, r, k) ==
    \E x \in Requests \ {r} : c[x].pc = "fetch" /\ c[x].key = k

\* between cache.get and `await _fetch_xml(url)` the wrapper looks at nothing
\* else: the fetches in flight are recorded nowhere
single_flight(c, r, k) == FALSE

\* the lookup misses, and the fetch helper returns the breaker's error at once
CachedMissBlocked(r, kind, k) ==
    LET g == get(get_cache(cache), k, now)
    IN
    /\ cf[r].pc = "idle"
    /\ ~single_flight(cf, r, k)
    /\ get_cache(cache).hits + get_cache(cache).misses < MaxLookups
    /\ ~cache_hit(g)
    /\ FetchBlocked(r, kind)
    /\ LET v == Tuple(ev'.ret.body, ev'.ret.error)
       IN  /\ cache' = IF should_cache(v) THEN set(g.cache, k, v, now) ELSE g.cache
           /\ cev' = CachedEvent("cached_return", k, v, Dropped(expire(g.cache, now), cache'))
           /\ hist' = HistoryAfterReturn([hist EXCEPT !.gets = @ + 1, !.fetches = @ + 1],
                                         k, v, should_cache(v), cev'.evicted)
    /\ UNCHANGED cf

\* the lookup misses, and the fetch helper starts its first attempt
CachedMissStart(r, kind, k) ==
    LET g == get(get_cache(cache), k, now)
    IN
    /\ cf[r].pc = "idle"
    /\ get_cache(cache).hits + get_cache(cache).misses < MaxLookups
    /\ ~cache_hit(g)
    /\ IF single_flight(cf, r, k)
       THEN /\ req[r].pc = "idle"
            /\ cf' = [cf EXCEPT ![r] = [pc |-> "join", key |-> k, kind |-> kind]]
            /\ hist' = [hist EXCEPT !.gets = @ + 1]
            /\ UNCHANGED fvars
       ELSE /\ FetchStart(r, kind)
            /\ cf' = [cf EXCEPT ![r] = [pc |-> "fetch", key |-> k, kind |-> kind]]
            /\ hist' = [hist EXCEPT !.gets = @ + 1, !.fetches = @ + 1]
    /\ cache' = g.cache
    /\ cev' = CachedEvent("cached_miss", k, Tuple("None", NoError), {})

\* the fetch helper has returned (ev'.ret): store a success, return the tuple
CachedReturn(r) ==
    LET k == cf[r].key
        v == Tuple(ev'.ret.body, ev'.ret.error)
    IN
    /\ cf[r].pc = "fetch"
    /\ cache' = IF should_cache(v) THEN set(cache, k, v, now) ELSE cache
    /\ cf' = [cf EXCEPT ![r] = NoCall]
    /\ cev' = CachedEvent("cached_return", k, v, Dropped(expire(cache, now), cache'))
    /\ hist' = HistoryAfterReturn(hist, k, v, should_cache(v), cev'.evicted)

\* the headers argument of cached_fetch_json
Headers == {"H1", "H2"}

\* a key that tells the headers apart
cache_key_with_headers(url, headers) == IF headers = "H1" THEN "k1" ELSE "k3"

\* cache_key = generate_cache_key(url, params): the digest of the request, k1
\* for the url u1; headers is not an argument
cache_key(url, headers) == IF url = "u1" THEN "k1" ELSE "k2"

\* cached_fetch_json(u1, None, h) up to its first await or its return; applied
\* keeps the headers of each task's call, and for the entry in the cache the
\* headers it was fetched with and the time it was stored
CachedCall(r, h) ==
    LET k == cache_key("u1", h)
        seen == IF applied.fn = "none"
                THEN [fn |-> "cached_fetch_json", headers |-> [x \in Requests |-> "none"],
                      under |-> "none", at |-> None]
                ELSE applied
    IN
    /\ \/ CachedHit(r, "json", k)
       \/ CachedMissBlocked(r, "json", k)
       \/ CachedMissStart(r, "json", k)
    /\ applied' = [seen EXCEPT !.headers[r] = h]
    /\ tool' = tool

\* the fetch of the task's cached_fetch_json returns: store, return
CachedDone(r) ==
    /\ \/ AttemptSucceeds(r)
       \/ \E o \in CachedFailures : AttemptFailsFinal(r, o)
    /\ CachedReturn(r)
    /\ applied' = IF should_cache(cev'.value)
                  THEN [applied EXCEPT !.under = applied.headers[r], !.at = now]
                  ELSE applied
    /\ tool' = tool

\* the singleton is not built yet, or was built by get_cache(ttl, 1)
InitCached ==
    /\ now = 0
    /\ cb = NewBreaker
    /\ req = [r \in Requests |-> Idle]
    /\ ev = Event("init", "direct", "closed", Plain, NoRet)
    /\ streak = 0
    /\ reopenedAt = None
    /\ cache \in {NoCache} \cup {APICache(ttl, 1) : ttl \in Ttls}
    /\ cf = [r \in Requests |-> NoCall]
    /\ cev = NoCacheEvent
    /\ hist = NoHistory
    /\ notified = NoNotification
    /\ tool = NoTool
    /\ applied = NoApplication

\* one task making cached fetches; the other users of the breaker appear as
\* their record_failure() calls
NextCached ==
    \/ \E d \in TickDeltas : Tick(d) /\ UNCHANGED <<cvars, xvars>>
    \/ RecordFailure /\ UNCHANGED <<cvars, xvars>>
    \/ \E kind \in Kinds, k \in CachedKeys : CachedHit("r1", kind, k) /\ UNCHANGED xvars
    \/ \E kind \in Kinds, k \in CachedKeys : CachedMissBlocked("r1", kind, k) /\ UNCHANGED xvars
    \/ \E kind \in Kinds, k \in CachedKeys : CachedMissStart("r1", kind, k) /\ UNCHANGED xvars
    \/ AttemptSucceeds("r1") /\ CachedReturn("r1") /\ UNCHANGED xvars
    \/ \E o \in CachedFailures : AttemptFailsRetry("r1", o) /\ UNCHANGED <<cvars, xvars>>
    \/ SleepDone("r1") /\ UNCHANGED <<cvars, xvars>>
    \/ \E o \in CachedFailures : AttemptFailsFinal("r1", o) /\ CachedReturn("r1") /\ UNCHANGED xvars

SpecCached == InitCached /\ [][NextCached]_vars

\* two tasks calling cached_fetch_json for one url, each with headers of its own;
\* the other users of the breaker appear as their record_failure() calls
NextRequests ==
    \/ Tick(CIRCUIT_BREAKER_RECOVERY_TIMEOUT) /\ UNCHANGED <<cvars, xvars>>
    \/ RecordFailure /\ UNCHANGED <<cvars, xvars>>
    \/ \E r \in Requests, h \in Headers : CachedCall(r, h)
    \/ \E r \in Requests : CachedDone(r)
    \/ \E r \in Requests, o \in CachedFailures :
          AttemptFailsRetry(r, o) /\ UNCHANGED <<cvars, xvars>>
    \/ \E r \in Requests : SleepDone(r) /\ UNCHANGED <<cvars, xvars>>

\* the singleton was built by get_cache(ttl, 1) before the first call
InitRequests ==
    /\ InitCached
    /\ cache.made

SpecRequests == InitRequests /\ [][NextRequests]_vars

\* ------------------------------------------------------------------ get_cache / reset_cache
\* ttl and maxsize arguments of the get_cache calls made
SingletonTtls == {20, 40}
SingletonMaxsizes == {1, 2}

\* a get_cache that builds an instance on every call
get_cache_rebuilding(c, ttl, maxsize) == APICache(ttl, maxsize)

\* get_cache(ttl, maxsize): _cache_instance afterwards, which is what it returns
get_cache_with(c, ttl, maxsize) == IF c.made THEN c ELSE APICache(ttl, maxsize)

\* reset_cache(): _cache_instance = None
reset_cache(c) == NoCache

\* a call of get_cache or reset_cache and the arguments it was given
SingletonEvent(op, ttl, maxsize) == [op |-> op, ttl |-> ttl, maxsize |-> maxsize]

GetCache(ttl, maxsize) ==
    /\ cache' = get_cache_with(cache, ttl, maxsize)
    /\ cev' = SingletonEvent("get_cache", ttl, maxsize)
    /\ UNCHANGED <<cf, hist>> /\ UNCHANGED fvars

ResetCache ==
    /\ cache' = reset_cache(cache)
    /\ cev' = SingletonEvent("reset_cache", 0, 0)
    /\ hist' = NoHistory
    /\ UNCHANGED cf /\ UNCHANGED fvars

\* the module-level singleton and the users of the instance it hands out
NextSingleton ==
    \/ \E d \in TickDeltas : Tick(d) /\ UNCHANGED <<cvars, xvars>>
    \/ \E ttl \in SingletonTtls, maxsize \in SingletonMaxsizes :
          GetCache(ttl, maxsize) /\ UNCHANGED xvars
    \/ ResetCache /\ UNCHANGED xvars
    \/ \E k \in CachedKeys : Get(k) /\ UNCHANGED xvars
    \/ \E k \in CachedKeys, v \in CacheValues : Set(k, v) /\ UNCHANGED xvars

SpecSingleton == Init /\ [][NextSingleton]_vars

\* ------------------------------------------------------------------ generate_cache_key
\* a str is the sequence of its characters
\* the urls of the requests: two endpoints, and the first with a query string
Urls == {<<"u">>, <<"v">>, <<"u", "?", "a", "=", "1">>}

\* parameter names, in the order str comparison gives them
ParamNames == <<"a", "b">>

\* parameter values; the last one holds the characters urlencode joins with
ParamValues == {<<"1">>, <<"2">>, <<"1", "&", "b", "=", "2">>}

\* dict[str, str]: items in insertion order, no name twice
Dicts ==
    {<<>>}
    \cup {<<<<n, v>>>> : n \in {"a", "b"}, v \in ParamValues}
    \cup {d \in {<<<<n, v>>, <<m, w>>>> : n \in {"a", "b"}, m \in {"a", "b"},
                                         v \in ParamValues, w \in ParamValues} :
             d[1][1] # d[2][1]}

\* (url, params) of a request; has_params is `params is not None`
KeyRequests ==
    {[url |-> u, has_params |-> FALSE, params |-> <<>>] : u \in Urls}
    \cup {[url |-> u, has_params |-> TRUE, params |-> d] : u \in Urls, d \in Dicts}

\* the items of a dict as a set
Items(d) == {d[i] : i \in DOMAIN d}

\* items left in insertion order
sorted_as_given(names, items) == items

\* sorted(params.items()): by name, names being unique
RECURSIVE sorted(_, _)
sorted(names, items) ==
    IF names = <<>> THEN <<>>
    ELSE SelectSeq(items, LAMBDA it : it[1] = Head(names)) \o sorted(Tail(names), items)

\* urllib.parse.quote_plus: the reserved characters are percent-encoded
RECURSIVE quote_plus(_)
quote_plus(str) ==
    LET quoted(c) == IF c = "&" THEN <<"%", "2", "6">>
                     ELSE IF c = "=" THEN <<"%", "3", "D">>
                     ELSE IF c = "?" THEN <<"%", "3", "F">>
                     ELSE <<c>>
    IN  IF str = <<>> THEN <<>> ELSE quoted(Head(str)) \o quote_plus(Tail(str))

\* urllib.parse.urlencode of a list of (name, value) pairs
RECURSIVE urlencode(_)
urlencode(items) ==
    IF items = <<>> THEN <<>>
    ELSE quote_plus(<<Head(items)[1]>>) \o <<"=">> \o quote_plus(Head(items)[2])
         \o (IF Tail(items) = <<>> THEN <<>> ELSE <<"&">> \o urlencode(Tail(items)))

\* hashlib.sha256(key_input.encode()).hexdigest(), taken as collision-free
sha256_hexdigest(key_input) == [sha256 |-> key_input]

\* generate_cache_key(url, params)
generate_cache_key(q) ==
    sha256_hexdigest(IF ~q.has_params THEN q.url
                     ELSE q.url \o <<"?">> \o urlencode(sorted(ParamNames, q.params)))

\* two requests whose keys are to be compared
InitKey ==
    /\ now = 0
    /\ cb = NewBreaker
    /\ req = [r \in Requests |-> Idle]
    /\ ev = Event("init", "direct", "closed", Plain, NoRet)
    /\ streak = 0
    /\ reopenedAt = None
    /\ notified = NoNotification
    /\ cache = NoCache
    /\ cf = [r \in Requests |-> NoCall]
    /\ cev = NoCacheEvent
    /\ hist = NoHistory
    /\ tool = NoTool
    /\ applied \in {[fn |-> "none", first |-> q1, second |-> q2] :
                      q1 \in KeyRequests, q2 \in KeyRequests}

GenerateCacheKey ==
    /\ applied.fn = "none"
    /\ applied' = [fn |-> "generate_cache_key", first |-> applied.first,
                   second |-> applied.second,
                   key1 |-> generate_cache_key(applied.first),
                   key2 |-> generate_cache_key(applied.second)]
    /\ UNCHANGED <<fvars, cvars, tool>>

SpecKey == InitKey /\ [][GenerateCacheKey]_vars

\* ------------------------------------------------------------------ parsers and summaries
\* the parsers of server.py: _parse_<family>
Families ==
    {"apt_trades", "officetel_trades", "villa_trades", "single_house_trades",
     "commercial_trade", "apt_rent", "officetel_rent", "single_house_rent"}

\* the parsers with `if _txt(item, "cdealType") == "O": continue`
SkipsCancelled == Families \ {"officetel_rent", "single_house_rent"}

\* the parsers whose records carry deposit_10k and monthly_rent_10k
RentFamilies == {"apt_rent", "officetel_rent", "single_house_rent"}

\* at most MaxItems <item> elements in a response
MaxItems == 3

\* response bodies: not well-formed XML, an API error code, or a list of <item>
\* elements, each with its cdealType text and with what _parse_amount makes of
\* its dealAmount / deposit text and of its monthlyRent text (None: not a number)
Bodies ==
    LET Item == [cdealType : {"O", ""}, amount : {None, 1, 2, 4},
                 monthlyRent : {None, 1, 2}]
    IN  {[wellformed |-> FALSE, result_code |-> "", items |-> <<>>],
         [wellformed |-> TRUE, result_code |-> "030", items |-> <<>>]}
        \cup {[wellformed |-> TRUE, result_code |-> "000", items |-> its] :
                its \in UNION {[1..n -> Item] : n \in 0..MaxItems}}

\* _parse_<family>(xml_text): xml_fromstring raises on a malformed body; a
\* resultCode other than "000" is returned with no items; names are the
\* positions of the <item> elements the returned records were made from
parse(family, body) ==
    IF ~body.wellformed
    THEN [raised |-> "XmlParseError", items |-> <<>>, names |-> <<>>, error_code |-> "None"]
    ELSE IF body.result_code # "000"
    THEN [raised |-> "None", items |-> <<>>, names |-> <<>>, error_code |-> body.result_code]
    ELSE LET kept == SelectSeq([i \in DOMAIN body.items |-> i],
                               LAMBDA i : /\ ~(family \in SkipsCancelled
                                               /\ body.items[i].cdealType = "O")
                                          /\ body.items[i].amount # None)
             rent(i) == IF body.items[i].monthlyRent = None
                        THEN 0 ELSE body.items[i].monthlyRent
         IN  [raised |-> "None", error_code |-> "None", names |-> kept,
              items |-> [j \in DOMAIN kept |->
                            IF family \in RentFamilies
                            THEN [deposit_10k |-> body.items[kept[j]].amount,
                                  monthly_rent_10k |-> rent(kept[j])]
                            ELSE [price_10k |-> body.items[kept[j]].amount]]]

\* sum(rents), as statistics.mean takes it
RECURSIVE sum_of(_)
sum_of(xs) == IF xs = <<>> THEN 0 ELSE Head(xs) + sum_of(Tail(xs))

\* int(statistics.median(prices)) of a non-empty list: the middle value of the
\* sorted list, or the mean of the two middle values cut to an integer
median(prices) ==
    LET n == Len(prices)
        values == {prices[i] : i \in 1..n}
        data == CHOOSE d \in [1..n -> values] :
                    /\ \A i \in 1..(n - 1) : d[i] <= d[i + 1]
                    /\ \A v \in values : Cardinality({i \in 1..n : d[i] = v})
                                          = Cardinality({i \in 1..n : prices[i] = v})
    IN  IF n % 2 = 1 THEN data[(n + 1) \div 2]
        ELSE (data[n \div 2] + data[n \div 2 + 1]) \div 2

\* a summary that reports null for an empty list
build_trade_summary_null(items) ==
    LET prices == [i \in DOMAIN items |-> items[i].price_10k]
        values == {prices[i] : i \in DOMAIN prices}
    IN  IF items = <<>>
        THEN [median_price_10k |-> None, min_price_10k |-> None, max_price_10k |-> None,
              sample_count |-> 0]
        ELSE [median_price_10k |-> median(prices),
              min_price_10k |-> CHOOSE v \in values : \A w \in values : v <= w,
              max_price_10k |-> CHOOSE v \in values : \A w \in values : v >= w,
              sample_count |-> Len(prices)]

\* _build_trade_summary(items)
build_trade_summary(items) ==
    LET prices == [i \in DOMAIN items |-> items[i].price_10k]
        values == {prices[i] : i \in DOMAIN prices}
    IN  IF items = <<>>
        THEN [median_price_10k |-> 0, min_price_10k |-> 0, max_price_10k |-> 0,
              sample_count |-> 0]
        ELSE [median_price_10k |-> median(prices),
              min_price_10k |-> CHOOSE v \in values : \A w \in values : v <= w,
              max_price_10k |-> CHOOSE v \in values : \A w \in values : v >= w,
              sample_count |-> Len(prices)]

\* _build_rent_summary(items): int(statistics.median(deposits)),
\* int(statistics.mean(rents)); int() cuts the fraction off
build_rent_summary(items) ==
    LET deposits == [i \in DOMAIN items |-> items[i].deposit_10k]
        rents == [i \in DOMAIN items |-> items[i].monthly_rent_10k]
        values == {deposits[i] : i \in DOMAIN deposits}
    IN  IF items = <<>>
        THEN [median_deposit_10k |-> 0, min_deposit_10k |-> 0, max_deposit_10k |-> 0,
              monthly_rent_avg_10k |-> 0, jeonse_ratio_pct |-> None, sample_count |-> 0]
        ELSE [median_deposit_10k |-> median(deposits),
              min_deposit_10k |-> CHOOSE v \in values : \A w \in values : v <= w,
              max_deposit_10k |-> CHOOSE v \in values : \A w \in values : v >= w,
              monthly_rent_avg_10k |-> sum_of(rents) \div Len(rents),
              jeonse_ratio_pct |-> None,
              sample_count |-> Len(deposits)]

\* a response body handed to one of the parsers
InitParse ==
    /\ now = 0
    /\ cb = NewBreaker
    /\ req = [r \in Requests |-> Idle]
    /\ ev = Event("init", "direct", "closed", Plain, NoRet)
    /\ streak = 0
    /\ reopenedAt = None
    /\ notified = NoNotification
    /\ cache = NoCache
    /\ cf = [r \in Requests |-> NoCall]
    /\ cev = NoCacheEvent
    /\ hist = NoHistory
    /\ tool = NoTool
    /\ applied \in {[fn |-> "none", family |-> f, body |-> b] : f \in Families, b \in Bodies}

Parse ==
    /\ applied.fn = "none"
    /\ applied' = [fn |-> "parse", family |-> applied.family, body |-> applied.body,
                   parsed |-> parse(applied.family, applied.body)]
    /\ UNCHANGED <<fvars, cvars, tool>>

\* summary_builder(items) of _run_trade_tool, on the records a trade parser returned
BuildTradeSummary ==
    /\ applied.fn = "parse"
    /\ applied.family \in {"apt_trades", "officetel_trades", "villa_trades",
                            "single_house_trades", "commercial_trade"}
    /\ applied.parsed.raised = "None" /\ applied.parsed.error_code = "None"
    /\ applied' = [fn |-> "summary", family |-> applied.family, body |-> applied.body,
                   parsed |-> applied.parsed,
                   summary |-> build_trade_summary(applied.parsed.items)]
    /\ UNCHANGED <<fvars, cvars, tool>>

\* summary_builder(items) of _run_rent_tool, on the records a rent parser returned
BuildRentSummary ==
    /\ applied.fn = "parse"
    /\ applied.family \in RentFamilies
    /\ applied.parsed.raised = "None" /\ applied.parsed.error_code = "None"
    /\ applied' = [fn |-> "summary", family |-> applied.family, body |-> applied.body,
                   parsed |-> applied.parsed,
                   summary |-> build_rent_summary(applied.parsed.items)]
    /\ UNCHANGED <<fvars, cvars, tool>>

SpecParse == InitParse /\ [][Parse \/ BuildTradeSummary \/ BuildRentSummary]_vars

\* ------------------------------------------------------------------ tool runners
\* the requests (base_url, region_code, year_month, num_of_rows) the tools are run for
ToolKeys == {"k1", "k2"}

\* the tools run: get_apartment_trades and get_officetel_rent, which fetch XML,
\* and get_public_auction_items, which fetches JSON
ToolFamilies == {"apt_trades", "officetel_rent", "public_auction_items"}

\* _fetch_xml or _fetch_json
KindOf(f) == IF f = "public_auction_items" THEN "json" ELSE "xml"

\* what their fetches return: XML that is malformed, an API error, no item or
\* one item; a JSON payload that is a dict with a normal result code, or a list
ToolBodies(f) ==
    IF KindOf(f) = "json" THEN {"dict", "list"}
    ELSE {[wellformed |-> FALSE, result_code |-> "", items |-> <<>>],
          [wellformed |-> TRUE, result_code |-> "030", items |-> <<>>],
          [wellformed |-> TRUE, result_code |-> "000", items |-> <<>>],
          [wellformed |-> TRUE, result_code |-> "000",
           items |-> <<[cdealType |-> "", amount |-> 1, monthlyRent |-> None]>>]}

\* arguments of the trade and rent tools: a region code that is and one that is
\* not in the region file, a year-month in and one not in YYYYMM format (the
\* string's characters), a
\* num_of_rows within and one above the limit of 1000, the api key set or not
ToolInputs ==
    {ToolArgs(c, ym, n, key) : c \in {"11440", "99999"},
                               ym \in {<<"2", "0", "2", "5", "0", "1">>, <<"2", "0", "2", "5", "-", "0", "1">>},
                               n \in {100, 1001}, key \in {"test-key", ""}}

\* a runner that asks for the api key before it validates
rejection_key_first(a) ==
    IF a.api_key = "" THEN "config_error"
    ELSE IF a.region_code # "11440" THEN "invalid_input"
    ELSE IF Len(a.year_month) # 6 THEN "invalid_input"
    ELSE IF a.num_of_rows < 1 \/ a.num_of_rows > 1000 THEN "invalid_input"
    ELSE "None"

\* the early returns of _run_molit_xml_tool: validate_lawd_code, validate_deal_ymd,
\* validate_pagination, _check_api_key, in this order
rejection(a) ==
    IF a.region_code # "11440" THEN "invalid_input"
    ELSE IF Len(a.year_month) # 6 THEN "invalid_input"
    ELSE IF a.num_of_rows < 1 \/ a.num_of_rows > 1000 THEN "invalid_input"
    ELSE IF a.api_key = "" THEN "config_error"
    ELSE "None"

\* a runner that lets the parser's exception pass
tool_result_uncaught(family, body) ==
    IF KindOf(family) = "json"
    THEN ToolResult(IF body = "dict" THEN "None" ELSE "parse_error", "None", "None", 0)
    ELSE LET parsed == parse(family, body)
         IN  IF parsed.raised # "None"
             THEN ToolResult("None", parsed.raised, parsed.raised, 0)
             ELSE IF parsed.error_code # "None"
             THEN ToolResult("api_error", "None", "None", 0)
             ELSE ToolResult("None", "None", "None", Len(parsed.items))

\* after the fetch. get_public_auction_items: if not isinstance(payload, dict):
\* parse_error. _run_molit_xml_tool: try parser(xml_text) except XmlParseError,
\* _api_error_response(error_code), or the dict with the items
tool_result(family, body) ==
    IF KindOf(family) = "json"
    THEN ToolResult(IF body = "dict" THEN "None" ELSE "parse_error", "None", "None", 0)
    ELSE LET parsed == parse(family, body)
         IN  IF parsed.raised # "None"
             THEN ToolResult("parse_error", "None", parsed.raised, 0)
             ELSE IF parsed.error_code # "None"
             THEN ToolResult("api_error", "None", "None", 0)
             ELSE ToolResult("None", "None", "None", Len(parsed.items))

\* a validation or the api key check fails: early return, nothing is fetched
ToolRejects(k, f, a) ==
    /\ tool.pc = "idle"
    /\ KindOf(f) = "xml"
    /\ rejection(a) # "None"
    /\ tool' = [tool EXCEPT !.args = a, !.result = ToolResult(rejection(a), "None", "None", 0)]
    /\ ev' = Event("none", "r1", cb.state, Plain, NoRet)
    /\ UNCHANGED <<now, cb, req, streak, reopenedAt, notified>>

\* xml_text, fetch_err = await _fetch_xml(url): the breaker blocks the call
ToolBlocked(k, f) ==
    /\ tool.pc = "idle"
    /\ FetchBlocked("r1", KindOf(f))
    /\ \E a \in ToolInputs :
          /\ rejection(a) = "None"
          /\ tool' = [tool EXCEPT !.args = a,
                                  !.result = ToolResult(ev'.ret.error.error, "None", "None", 0)]

\* xml_text, fetch_err = await _fetch_xml(url): the first attempt starts
ToolFetches(k, f) ==
    /\ tool.pc = "idle"
    /\ FetchStart("r1", KindOf(f))
    /\ \E a \in ToolInputs :
          /\ rejection(a) = "None"
          /\ tool' = [tool EXCEPT !.pc = "fetch", !.key = k, !.family = f, !.args = a]

\* the fetch helper returns the body: parser, summary, return
ToolReturns(body) ==
    /\ tool.pc = "fetch"
    /\ AttemptSucceeds("r1")
    /\ tool' = [tool EXCEPT !.pc = "idle", !.key = "none", !.family = "none",
                            !.served = tool.key, !.at = now,
                            !.result = tool_result(tool.family, body)]

\* _fetch_xml returns an error dict: if fetch_err: return fetch_err
ToolFails(o) ==
    /\ tool.pc = "fetch"
    /\ AttemptFailsFinal("r1", o)
    /\ tool' = [tool EXCEPT !.pc = "idle", !.key = "none", !.family = "none",
                            !.result = ToolResult(ev'.ret.error.error, "None", "None", 0)]

\* the task is cancelled inside _fetch_xml: the error passes through the runner
ToolCancelled ==
    /\ tool.pc = "fetch"
    /\ Cancel("r1")
    /\ tool' = IF req'["r1"].pc = "idle"
               THEN [tool EXCEPT !.pc = "idle", !.key = "none", !.family = "none",
                                 !.result = ToolResult("None", "CancelledError", "None", 0)]
               ELSE tool

\* one task running the trade and rent tools one after the other
NextTool ==
    \/ Tick(CIRCUIT_BREAKER_RECOVERY_TIMEOUT) /\ UNCHANGED <<cvars, xvars>>
    \/ \E k \in ToolKeys, f \in ToolFamilies, a \in ToolInputs :
          ToolRejects(k, f, a) /\ UNCHANGED <<cvars, applied>>
    \/ \E k \in ToolKeys, f \in ToolFamilies : ToolBlocked(k, f) /\ UNCHANGED <<cvars, applied>>
    \/ \E k \in ToolKeys, f \in ToolFamilies : ToolFetches(k, f) /\ UNCHANGED <<cvars, applied>>
    \/ \E body \in ToolBodies(tool.family) : ToolReturns(body) /\ UNCHANGED <<cvars, applied>>
    \/ \E o \in Outcomes("json") : AttemptFailsRetry("r1", o) /\ UNCHANGED <<cvars, xvars>>
    \/ SleepDone("r1") /\ UNCHANGED <<cvars, xvars>>
    \/ \E o \in Outcomes("json") : ToolFails(o) /\ UNCHANGED <<cvars, applied>>
    \/ ToolCancelled /\ UNCHANGED <<cvars, applied>>

SpecTool == Init /\ [][NextTool]_vars

\* ------------------------------------------------------------------ properties
Returned == ev.ret.returned

\* C1: counting from a fresh breaker (or from the last record_success), the
\* failure_threshold-th consecutive record_failure() leaves the state Open, and a
\* can_execute() made before recovery_timeout has elapsed since the last failure
\* returns (False, circuit_breaker_open); with fewer failures the state is Closed
\* and can_execute() allows, which is also the case after one record_success().
C1_OpensAtThreshold ==
    /\ streak < CIRCUIT_BREAKER_FAILURE_THRESHOLD
          => /\ cb.state = "closed"
             /\ ev.op = "can_execute" => ev.allowed /\ ev.error = NoError
    /\ (ev.op = "record_failure" /\ streak >= CIRCUIT_BREAKER_FAILURE_THRESHOLD)
          => cb.state = "open"
    /\ (/\ ev.op = "can_execute"
        /\ streak >= CIRCUIT_BREAKER_FAILURE_THRESHOLD
        /\ now - cb.last_failure_time < CIRCUIT_BREAKER_RECOVERY_TIMEOUT)
          => /\ ~ev.allowed
             /\ ev.error.error = "circuit_breaker_open"
             /\ cb.state = "open"

C1_Witness ==
    /\ ev.op = "can_execute" /\ ev.by = "direct"
    /\ streak = CIRCUIT_BREAKER_FAILURE_THRESHOLD
    /\ ~ev.allowed

\* C2: a fetch call the breaker blocks returns the breaker's circuit_breaker_open
\* error in the same step: no network attempt, no record_success(), no
\* record_failure(), and the call is over.
C2_BlockedFetchReturnsAtOnce ==
    (ev.op = "can_execute" /\ ev.by \in Requests /\ ~ev.allowed)
        => /\ Returned
           /\ ev.ret.body = "None"
           /\ ev.ret.error = ev.error
           /\ ev.ret.error.error = "circuit_breaker_open"
           /\ ev.ret.attempts = 0
           /\ ev.ret.nfail = 0 /\ ev.ret.nsucc = 0 /\ ev.ret.charged = 0
           /\ req[ev.by].pc = "idle"

C2_Witness ==
    /\ ev.op = "can_execute" /\ ev.by \in Requests
    /\ ~ev.allowed /\ Returned
    /\ ev.ret.kind = "json"

\* C3: a can_execute() poll that finds the breaker HalfOpen (the trial was admitted
\* and has not completed) is not allowed.
C3_HalfOpenSingleTrial ==
    (ev.op = "can_execute" /\ ev.pre = "half_open") => ~ev.allowed

\* C4: Open carries a last_failure_time, and HalfOpen is entered only from Open,
\* only by a can_execute() call, only when now - last_failure_time >=
\* recovery_timeout.
C4_HalfOpenOnlyAfterTimeout ==
    [][/\ cb'.state = "open" => cb'.last_failure_time # None
       /\ (cb'.state = "half_open" /\ cb.state # "half_open")
             => /\ cb.state = "open"
                /\ ev'.op = "can_execute"
                /\ cb.last_failure_time # None
                /\ now - cb.last_failure_time >= CIRCUIT_BREAKER_RECOVERY_TIMEOUT]_vars

C4_Witness ==
    /\ cb.state = "half_open"
    /\ ev.op = "can_execute" /\ ev.pre = "open" /\ ev.allowed

\* C5: record_failure() in HalfOpen leaves the breaker Open and stamped with the
\* time of that failure, whatever the counter, and until recovery_timeout has
\* elapsed since that failure (and no success intervened) can_execute() blocks.
C5_FailedTrialReopens ==
    /\ (ev.op = "record_failure" /\ ev.pre = "half_open")
          => /\ cb.state = "open"
             /\ cb.last_failure_time = now
             /\ reopenedAt = now
    /\ (/\ ev.op = "can_execute"
        /\ reopenedAt # None
        /\ now - reopenedAt < CIRCUIT_BREAKER_RECOVERY_TIMEOUT)
          => ~ev.allowed /\ cb.state = "open"

C5_Witness ==
    /\ ev.op = "can_execute" /\ ~ev.allowed
    /\ reopenedAt # None /\ now > reopenedAt
    /\ cb.failure_count > CIRCUIT_BREAKER_FAILURE_THRESHOLD

\* C6: after record_success(), called in whichever state, the failure counter is 0
\* and the state is Closed.
C6_SuccessResets ==
    ev.op = "record_success" => cb.failure_count = 0 /\ cb.state = "closed"

C6_Witness ==
    /\ ev.op = "record_success" /\ ev.pre = "half_open"
    /\ cb.state = "closed"

\* C7: a fetch call sleeps for another attempt only after a timeout or a
\* connection error, and a call whose attempt ended in a non-2xx status or an
\* undecodable JSON body made exactly one network attempt.
C7_OnlyTransientRetried ==
    /\ \A r \in Requests : req[r].pc = "sleep" => req[r].last \in Transient
    /\ (Returned /\ ev.ret.last \in {"http_error", "bad_json"})
          => ev.ret.attempts = 1

\* C8 as stated: a fetch call calls record_failure() at most once, and a call whose
\* attempts all failed has raised the failure counter by exactly 1.
C8_AllFailedChargesOnce ==
    /\ Returned => ev.ret.nfail <= 1 /\ ev.ret.charged <= 1
    /\ (Returned /\ ev.ret.attempts >= 1 /\ ev.ret.fails = ev.ret.attempts)
          => ev.ret.nfail = 1 /\ ev.ret.charged = 1

\* C8 amended: a fetch call calls record_failure() at most once: while attempts
\* are retried none is recorded; a call whose attempts all failed and that returns
\* network_error has raised the failure counter by exactly 1, and one whose last
\* attempt ended in a JSON decode error (parse_error) has not raised it.
C8_OneFailurePerCall ==
    /\ \A r \in Requests : req[r].nfail = 0 /\ req[r].charged = 0
    /\ Returned => ev.ret.nfail <= 1 /\ ev.ret.charged <= 1
    /\ (Returned /\ ev.ret.attempts >= 1 /\ ev.ret.fails = ev.ret.attempts)
          => \/ /\ ev.ret.error.error = "network_error"
                /\ ev.ret.nfail = 1 /\ ev.ret.charged = 1
                /\ ev.op = "record_failure"
             \/ /\ ev.ret.error.error = "parse_error"
                /\ ev.ret.last = "bad_json"
                /\ ev.ret.nfail = 0 /\ ev.ret.charged = 0

C8_Witness ==
    /\ Returned /\ ev.ret.error.error = "network_error"
    /\ ev.ret.fails = RETRY_MAX_ATTEMPTS
    /\ ev.ret.charged = 1

\* C9: a fetch_json call that returns parse_error has called neither
\* record_failure() nor record_success(); its returning step leaves the breaker as
\* it is, and when nobody else touched the breaker during the call the failure
\* counter and last_failure_time are those of before the call and a breaker that
\* admitted the call in HalfOpen is still HalfOpen.
C9_ParseErrorLeavesBreaker ==
    [][(ev'.ret.returned /\ ev'.ret.error.error = "parse_error")
          => /\ ev'.ret.kind = "json"
             /\ ev'.op = "none"
             /\ ev'.ret.nfail = 0 /\ ev'.ret.nsucc = 0 /\ ev'.ret.charged = 0
             /\ cb' = cb
             /\ ev'.ret.intact
                   => /\ cb'.failure_count = ev'.ret.before.failure_count
                      /\ cb'.last_failure_time = ev'.ret.before.last_failure_time
                      /\ cb'.state = ev'.ret.admitted]_vars

C9_Witness ==
    /\ Returned /\ ev.ret.error.error = "parse_error"
    /\ ev.ret.intact /\ ev.ret.admitted = "half_open"
    /\ cb.state = "half_open"

\* C10: a fetch call ends at its first successful attempt: the attempts made are
\* the failed ones plus that one, at most max_attempts, the body comes back with
\* error None, and record_failure() was not called for the call.
C10_StopsAtFirstSuccess ==
    (Returned /\ ev.ret.body # "None")
        => /\ ev.ret.error = NoError
           /\ ev.ret.last = "ok"
           /\ ev.ret.attempts = ev.ret.fails + 1
           /\ ev.ret.attempts <= RETRY_MAX_ATTEMPTS
           /\ ev.ret.nfail = 0 /\ ev.ret.charged = 0
           /\ ev.ret.nsucc = 1 /\ ev.op = "record_success"
           /\ req[ev.by].pc = "idle"

C10_Witness ==
    /\ Returned /\ ev.ret.body = "xml_text"
    /\ ev.ret.attempts = RETRY_MAX_ATTEMPTS
    /\ ev.ret.fails = RETRY_MAX_ATTEMPTS - 1

\* C11: a fetch call every attempt of which timed out has made exactly
\* RETRY_MAX_ATTEMPTS attempts when it returns, is over (its task is idle again),
\* and returns (None, network_error) with the message that names
\* RETRY_MAX_ATTEMPTS; while such a call waits for another attempt it has made
\* fewer than RETRY_MAX_ATTEMPTS, and no call ever makes more.
C11_TimeoutsExhaustRetries ==
    /\ \A r \in Requests :
          /\ req[r].attempts <= RETRY_MAX_ATTEMPTS
          /\ req[r].pc = "sleep" => req[r].attempts < RETRY_MAX_ATTEMPTS
    /\ (Returned /\ ev.ret.attempts >= 1 /\ ev.ret.timeouts = ev.ret.attempts)
          => /\ ev.ret.attempts = RETRY_MAX_ATTEMPTS
             /\ ev.ret.body = "None"
             /\ ev.ret.error = [error |-> "network_error",
                                message |-> "timed_out_after_n_attempts",
                                n |-> RETRY_MAX_ATTEMPTS]
             /\ req[ev.by].pc = "idle"

C11_Witness ==
    /\ Returned /\ ev.ret.timeouts = RETRY_MAX_ATTEMPTS
    /\ ev.ret.attempts = RETRY_MAX_ATTEMPTS
    /\ ev.ret.error.message = "timed_out_after_n_attempts"

\* C12: a fetch call one of whose attempts received a non-2xx response returns
\* (None, network_error) with the message that carries a status code, and its
\* last step called record_failure().
C12_Non2xxFailsTheCall ==
    (Returned /\ ev.ret.non2xx >= 1)
        => /\ ev.op = "record_failure" /\ ev.ret.nfail = 1
           /\ ev.ret.body = "None"
           /\ ev.ret.error.error = "network_error"
           /\ ev.ret.error.message = "http_error_status"
           /\ ev.ret.error.n \in StatusCodes

\* C13: a fetch call whose last attempt succeeded, slow or not, returns the body
\* with no error, has called record_success() as its last step and never
\* record_failure(), and leaves the breaker Closed with failure counter 0.
C13_SlowSuccessIsSuccess ==
    (Returned /\ ev.ret.last = "ok")
        => /\ ev.op = "record_success" /\ ev.ret.nsucc = 1
           /\ ev.ret.nfail = 0 /\ ev.ret.charged = 0
           /\ ev.ret.body # "None" /\ ev.ret.error = NoError
           /\ cb.state = "closed" /\ cb.failure_count = 0

C13_Witness ==
    /\ Returned /\ ev.ret.last = "ok" /\ ev.ret.slow
    /\ ev.pre = "half_open"
    /\ ev.ret.body = "json_data"

\* C17: get(k) and has(k) find nothing for a key whose last set lies ttl or more
\* back, whatever was done to the cache in between; and right after set(k, v),
\* with ttl > 0, get(k) returns v.
C17_ExpiredEntryIsAbsent ==
    cache.made =>
        /\ \A k \in CacheKeys :
              (hist.inserted[k] # None /\ now - hist.inserted[k] >= cache.ttl)
                  => /\ ~get(cache, k, now).found
                     /\ ~has(cache, k, now).found
        /\ \A k \in CacheKeys, v \in CacheValues :
              cache.ttl > 0
                  => /\ get(set(cache, k, v, now), k, now).found
                     /\ get(set(cache, k, v, now), k, now).value = v

C17_Witness ==
    /\ cev.op = "get" /\ ~cev.found
    /\ cache.links # <<>>
    /\ LET k == cache.links[Len(cache.links)].key
       IN  hist.inserted[k] # None /\ now - hist.inserted[k] = cache.ttl

\* a set of a key the cache does not hold live, on a cache that holds maxsize
\* live entries
SetOnFullCache ==
    /\ cev'.op = "set" /\ now' = now
    /\ LastSet(hist') \notin LiveKeys(cache, now)
    /\ Cardinality(LiveKeys(cache, now)) = cache.maxsize

C19_SizeWithinMaxsize ==
    cache.made =>
        /\ Len(cache.links) <= cache.maxsize
        /\ get_stats(cache, now).stats.size <= cache.maxsize
        /\ cev.op = "get_stats" => cev.stats.size <= cache.maxsize

C19_Witness ==
    /\ cev.op = "set" /\ cev.evicted # {}
    /\ get_stats(cache, now).stats.size = cache.maxsize

\* C20: a get() adds 1 to hits when it returns an entry, which is then one set
\* less than ttl ago, and 1 to misses otherwise, never to both; no other call
\* changes hits or misses; hits + misses is the number of get() calls; hit_rate
\* is hits / (hits + misses), and 0 while there was no get().
C20_StatsCountLookups ==
    /\ [](cache.made =>
            /\ cache.hits + cache.misses = hist.gets
            /\ LET r == get_stats(cache, now).stats.hit_rate
               IN  /\ r.den > 0
                   /\ r.num * (cache.hits + cache.misses) = cache.hits * r.den
                   /\ hist.gets = 0 => r.num = 0)
    /\ [][/\ hist'.gets = hist.gets + 1
             => \/ /\ cev'.found
                   /\ cache'.hits = cache.hits + 1 /\ cache'.misses = cache.misses
                   /\ LET k == cache'.links[Len(cache'.links)].key
                      IN  /\ hist.inserted[k] # None
                          /\ now - hist.inserted[k] < cache.ttl
                          /\ cev'.value = LinkOf(cache, k).value
                \/ /\ ~cev'.found
                   /\ cache'.hits = cache.hits /\ cache'.misses = cache.misses + 1
          /\ hist'.gets = hist.gets
             => cache'.hits = cache.hits /\ cache'.misses = cache.misses]_vars

C20_Witness ==
    /\ cev.op = "get_stats"
    /\ cev.stats.hits = 1 /\ cev.stats.misses = 2
    /\ cev.stats.hit_rate = [num |-> 1, den |-> 3]

\* a cached fetch makes its lookup in this step
LookedUp == hist'.gets = hist.gets + 1

\* a cached fetch returns in this step, at once or after its underlying fetch
CachedReturns ==
    /\ cev'.op = "cached_return"
    /\ LookedUp \/ \E r \in Requests : cf[r].pc = "fetch" /\ cf'[r].pc = "idle"

\* C14: every entry the cached fetches leave in the cache is a success (a body,
\* no error); a cached fetch that returns an error stores nothing and leaves its
\* key absent; and a cached fetch for a key that get() would not find calls the
\* underlying fetch helper.
C14_OnlySuccessesCached ==
    /\ [](\A i \in DOMAIN cache.links :
            /\ cache.links[i].value.response # "None"
            /\ cache.links[i].value.error = NoError)
    /\ [][(CachedReturns /\ cev'.value.error # NoError)
             => /\ Entries(cache') = Entries(get_cache(cache))
                /\ ~getitem(cache', cev'.key, now').found]_vars
    /\ [][(LookedUp /\ ~getitem(get_cache(cache), cev'.key, now).found)
             => /\ cev'.op \in {"cached_miss", "cached_return"}
                /\ hist'.fetches = hist.fetches + 1
                /\ ev'.op = "can_execute" /\ ev'.by = "r1"]_vars

C14_Witness ==
    /\ cev.op = "cached_return"
    /\ cev.value.error.error = "network_error"
    /\ Keys(cache) # {} /\ cev.key \notin Keys(cache)
    /\ ev.ret.attempts = RETRY_MAX_ATTEMPTS

\* C15: a cached fetch whose key has an unexpired successful entry returns that
\* entry in the step of its lookup: no underlying fetch is called, no breaker
\* method is called, and the breaker is as before, whatever its state.
C15_HitBypassesBreaker ==
    [][(/\ LookedUp
        /\ getitem(get_cache(cache), cev'.key, now).found
        /\ getitem(get_cache(cache), cev'.key, now).value.error = NoError)
          => /\ cev'.op = "cached_hit"
             /\ cev'.value = getitem(get_cache(cache), cev'.key, now).value
             /\ cb' = cb /\ ev' = ev /\ req' = req /\ streak' = streak
             /\ hist'.fetches = hist.fetches]_vars

C15_Witness ==
    /\ cev.op = "cached_hit"
    /\ cb.state = "open"
    /\ cev.value.response = "json_data"

\* C16: after a cached fetch for a key has fetched with success, a later cached
\* fetch for the same key, made less than ttl later and with the entry not
\* evicted in between, calls no underlying fetch (the one call of the first
\* stays the only one) and returns the body the first one returned.
C16_SecondCallServedFromCache ==
    [][(/\ LookedUp
        /\ hist.first[cev'.key] # "None"
        /\ hist.inserted[cev'.key] # None
        /\ now - hist.inserted[cev'.key] < get_cache(cache).ttl)
          => /\ cev'.op = "cached_hit"
             /\ cev'.value = Tuple(hist.first[cev'.key], NoError)
             /\ hist'.fetches = hist.fetches
             /\ req' = req]_vars

C16_Witness ==
    /\ cev.op = "cached_hit"
    /\ hist.fetches = 1 /\ hist.gets = 2
    /\ now > hist.inserted[cev.key]
    /\ cev.value.response = hist.first[cev.key]
    /\ cev.value.response = "xml_text"

\* ------------------------------------------------------------------ notifications
\* C27: while the breaker is open and blocking, two notifications of one breaker
\* are never logged less than 10 seconds apart: a step that logs one after an
\* earlier one finds the earlier one at least NOTIFICATION_WINDOW seconds old
C27_NotificationsTenSecondsApart ==
    [][(notified' # notified /\ notified.at # None /\ notified'.at # None)
       => notified'.at - notified.at >= NOTIFICATION_WINDOW]_vars

\* the open breaker has logged a notification, a later call was blocked without
\* one, and the next blocked call logs the second
C27_Witness ==
    /\ notified.at # None /\ notified.at < now
    /\ notified.at = cb.last_notification_time
    /\ warned(cb, now)

\* ------------------------------------------------------------------ singleton
\* C21: get_cache builds the instance on its first call from that call's ttl and
\* maxsize; every later call, whatever its arguments, leaves _cache_instance as
\* it is (same entries, statistics, ttl, maxsize) until reset_cache empties the
\* slot, after which the next get_cache builds an empty instance with zeroed
\* statistics from its own arguments
C21_SingletonUntilReset ==
    [][/\ \A ttl \in SingletonTtls, maxsize \in SingletonMaxsizes :
            (cev' = SingletonEvent("get_cache", ttl, maxsize)) =>
                IF cache.made
                THEN cache' = cache
                ELSE cache' = [made |-> TRUE, ttl |-> ttl, maxsize |-> maxsize,
                               links |-> <<>>, chain |-> <<>>, hits |-> 0, misses |-> 0]
       /\ (cev'.op = "reset_cache") => ~cache'.made
       /\ (cev'.op \notin {"get_cache", "reset_cache"}) => cache'.made = cache.made]_vars

\* a get_cache call with other arguments has returned the instance in use, which
\* holds an entry and has counted a lookup
C21_Witness ==
    /\ cev.op = "get_cache"
    /\ cache.made /\ cache.ttl # cev.ttl /\ cache.maxsize # cev.maxsize
    /\ cache.links # <<>> /\ cache.hits + cache.misses > 0

\* ------------------------------------------------------------------ cache keys
\* C22: for one url, two parameter maps holding the same name-value pairs in
\* different insertion order get the same key
C22_KeyIgnoresParameterOrder ==
    (/\ applied.fn = "generate_cache_key"
     /\ applied.first.url = applied.second.url
     /\ applied.first.has_params /\ applied.second.has_params
     /\ Items(applied.first.params) = Items(applied.second.params))
    => applied.key1 = applied.key2

\* the keys of two maps of two parameters each, inserted in opposite orders
C22_Witness ==
    /\ applied.fn = "generate_cache_key"
    /\ applied.first.url = applied.second.url
    /\ Len(applied.first.params) = 2
    /\ Items(applied.first.params) = Items(applied.second.params)
    /\ applied.first.params # applied.second.params
    /\ applied.key1 = applied.key2

\* C23: two requests that differ in the url, in having parameters or in a
\* parameter get different keys
C23_DistinctRequestsDistinctKeys ==
    (/\ applied.fn = "generate_cache_key"
     /\ \/ applied.first.url # applied.second.url
        \/ applied.first.has_params # applied.second.has_params
        \/ Items(applied.first.params) # Items(applied.second.params))
    => applied.key1 # applied.key2

\* ------------------------------------------------------------------ records and summaries
\* C29: whichever parser is used, an <item> whose cdealType is "O" is not among
\* the elements the returned records were made from
C29_CancelledNeverReturned ==
    applied.fn \in {"parse", "summary"} =>
        \A i \in DOMAIN applied.body.items :
            applied.body.items[i].cdealType = "O" =>
                \A j \in DOMAIN applied.parsed.names : applied.parsed.names[j] # i

\* C30: _build_trade_summary of an empty list reports 0 for median, minimum,
\* maximum and sample count; of a non-empty list it reports the number of records
\* as sample count and the smallest and the largest amount as minimum and maximum
C30_TradeSummaryCountMinMax ==
    (applied.fn = "summary" /\ applied.family \notin RentFamilies) =>
        LET items == applied.parsed.items
            sum == applied.summary
        IN  IF items = <<>>
            THEN /\ sum.median_price_10k = 0 /\ sum.min_price_10k = 0
                 /\ sum.max_price_10k = 0 /\ sum.sample_count = 0
            ELSE /\ sum.sample_count = Len(items)
                 /\ \E i \in DOMAIN items : sum.min_price_10k = items[i].price_10k
                 /\ \E i \in DOMAIN items : sum.max_price_10k = items[i].price_10k
                 /\ \A i \in DOMAIN items : /\ sum.min_price_10k <= items[i].price_10k
                                              /\ sum.max_price_10k >= items[i].price_10k

\* the summary of no record at all, every item of the response being cancelled
C30_Witness ==
    /\ applied.fn = "summary" /\ applied.family \notin RentFamilies
    /\ Len(applied.body.items) = MaxItems
    /\ applied.parsed.items = <<>>
    /\ applied.summary.sample_count = 0

\* C31: the median a summary reports is the middle amount of an odd number of
\* amounts and the average of the two middle amounts of an even number
C31_MedianIsStandard ==
    (applied.fn = "summary" /\ applied.parsed.items # <<>>) =>
        LET items == applied.parsed.items
            n == Len(items)
            amount(i) == IF applied.family \in RentFamilies
                         THEN items[i].deposit_10k ELSE items[i].price_10k
            reported == IF applied.family \in RentFamilies
                        THEN applied.summary.median_deposit_10k
                        ELSE applied.summary.median_price_10k
            below(v) == Cardinality({i \in 1..n : amount(i) < v})
            above(v) == Cardinality({i \in 1..n : amount(i) > v})
            middle(v) == 2 * below(v) < n /\ 2 * above(v) < n
            lower(v) == 2 * below(v) < n /\ 2 * above(v) <= n
            upper(v) == 2 * below(v) <= n /\ 2 * above(v) < n
        IN  IF n % 2 = 1
            THEN \E i \in 1..n : middle(amount(i)) /\ reported = amount(i)
            ELSE \E i, j \in 1..n : /\ lower(amount(i)) /\ upper(amount(j))
                                     /\ 2 * reported = amount(i) + amount(j)

\* C32: monthly_rent_avg_10k is the mean of the monthly rents rounded to the
\* nearest integer
C32_RentAverageRounded ==
    (/\ applied.fn = "summary" /\ applied.family \in RentFamilies
     /\ applied.parsed.items # <<>>) =>
        LET items == applied.parsed.items
            n == Len(items)
            total == sum_of([i \in 1..n |-> items[i].monthly_rent_10k])
            avg == applied.summary.monthly_rent_avg_10k
        IN  /\ 2 * n * avg >= 2 * total - n
            /\ 2 * n * avg <= 2 * total + n

\* ------------------------------------------------------------------ tasks
\* two _fetch_xml calls in flight at once on the process-wide breaker; a task
\* gives way to the other one only at its network I/O and at its backoff sleep
NextTasks ==
    \/ Tick(CIRCUIT_BREAKER_RECOVERY_TIMEOUT) /\ UNCHANGED <<cvars, xvars>>
    \/ \E r \in Requests : FetchBlocked(r, "xml") /\ UNCHANGED <<cvars, xvars>>
    \/ \E r \in Requests : FetchStart(r, "xml") /\ UNCHANGED <<cvars, xvars>>
    \/ \E r \in Requests : AttemptSucceeds(r) /\ UNCHANGED <<cvars, xvars>>
    \/ \E r \in Requests, o \in CachedFailures :
          AttemptFailsRetry(r, o) /\ UNCHANGED <<cvars, xvars>>
    \/ \E r \in Requests : SleepDone(r) /\ UNCHANGED <<cvars, xvars>>
    \/ \E r \in Requests, o \in CachedFailures :
          AttemptFailsFinal(r, o) /\ UNCHANGED <<cvars, xvars>>

SpecTasks == Init /\ [][NextTasks]_vars

C25_CancelledNeverRetried ==
    [][(ev'.op = "cancelled" /\ ev' # ev) =>
            /\ req'[ev'.by].pc = "idle"
            /\ cb' = cb
            /\ tool'.result.raised = "CancelledError"]_vars

\* the call was cancelled during its second attempt
C25_Witness ==
    /\ ev.op = "cancelled" /\ ev.ret.last = "io" /\ ev.ret.attempts = 2
    /\ req["r1"].pc = "idle"

\* C28: a runner asked again for a request it answered from a fetched body less
\* than DEFAULT_TTL seconds ago starts no fetch
C28_RepeatedRequestNotFetched ==
    [][(tool.pc = "idle" /\ tool'.pc = "fetch") =>
            ~(/\ tool.served = tool'.key
              /\ tool.result.error = "None" /\ tool.result.raised = "None"
              /\ now - tool.at < DEFAULT_TTL)]_vars

C34_ModeMatchesCounter ==
    /\ cb.state = "closed" <=> cb.failure_count < CIRCUIT_BREAKER_FAILURE_THRESHOLD
    /\ cb.state \in {"open", "half_open"}
          => cb.failure_count >= CIRCUIT_BREAKER_FAILURE_THRESHOLD

\* HalfOpen with more failures counted than it took to open
C34_Witness ==
    /\ cb.state = "half_open"
    /\ cb.failure_count > CIRCUIT_BREAKER_FAILURE_THRESHOLD

\* C35: record_failure() on an Open breaker leaves it Open, adds one to the
\* counter and stamps last_failure_time with the time of the call; HalfOpen is
\* entered no earlier than recovery_timeout after that stamp
C35_FailureWhileOpenRestamps ==
    [][/\ (cb.state = "open" /\ cb'.failure_count > cb.failure_count)
            => /\ cb'.state = "open"
               /\ cb'.failure_count = cb.failure_count + 1
               /\ cb'.last_failure_time = now'
       /\ (cb.state = "open" /\ cb'.state = "half_open")
            => now' - cb.last_failure_time >= CIRCUIT_BREAKER_RECOVERY_TIMEOUT]_vars

\* a call in flight has recorded its failure on a breaker that was already Open
\* and had been opened earlier
C35_Witness ==
    /\ ev.op = "record_failure" /\ ev.pre = "open" /\ ev.by \in Requests
    /\ cb.state = "open" /\ cb.last_failure_time = now
    /\ ev.ret.admitted = "closed"
    /\ now > 0

\* ------------------------------------------------------------------ calls in flight
\* C36: a fetch call asks the breaker once, on entry; the attempt that follows a
\* backoff sleep starts without asking and leaves the breaker as it is, whatever
\* its state, and a call the breaker blocks has made no attempt
C36_BreakerAskedOncePerCall ==
    [][/\ \A r \in Requests :
            (req[r].pc = "sleep" /\ req'[r].pc # "sleep")
                => /\ req'[r].pc = "io"
                   /\ req'[r].attempts = req[r].attempts + 1
                   /\ cb' = cb
                   /\ ev'.op # "can_execute"
       /\ (ev'.op = "can_execute" /\ ev' # ev)
            => /\ req[ev'.by].pc = "idle"
               /\ ev'.ret.returned => ev'.ret.attempts = 0]_vars

\* a call admitted while the breaker was Closed starts its third attempt with
\* the breaker Open
C36_Witness ==
    /\ req["r1"].pc = "io" /\ req["r1"].attempts = RETRY_MAX_ATTEMPTS
    /\ req["r1"].admitted = "closed"
    /\ ev.op = "none" /\ ev.by = "r1" /\ ev.pre = "open"
    /\ cb.state = "open"

\* C37: the success of a call in flight closes an Open breaker in that step,
\* counter 0, not by way of HalfOpen and however little time has passed since
\* the last failure; the breaker being Closed, can_execute() allows
C37_SuccessInFlightCloses ==
    [][/\ (/\ cb.state = "open"
           /\ \E r \in Requests : req[r].pc = "io" /\ req'[r].pc = "idle"
           /\ ev'.op = "record_success")
            => cb'.state = "closed" /\ cb'.failure_count = 0
       /\ (ev'.op = "can_execute" /\ ev'.pre = "closed") => ev'.allowed]_vars

\* a call admitted while the breaker was Closed has just closed the breaker the
\* other task's failures had opened, in the second the last failure was stamped
C37_Witness ==
    /\ ev.op = "record_success" /\ ev.by = "r1" /\ ev.pre = "open"
    /\ ev.ret.admitted = "closed"
    /\ cb.state = "closed" /\ cb.failure_count = 0
    /\ cb.last_failure_time = now

\* ------------------------------------------------------------------ recovery
\* two tasks that call _fetch_xml again and again; attempts fail only while the
\* clock leaves room for recovery_timeout to elapse afterwards, every later
\* attempt succeeds
NextRecovery ==
    \/ Tick(CIRCUIT_BREAKER_RECOVERY_TIMEOUT) /\ UNCHANGED <<cvars, xvars>>
    \/ \E r \in Requests : FetchBlocked(r, "xml") /\ UNCHANGED <<cvars, xvars>>
    \/ \E r \in Requests : FetchStart(r, "xml") /\ UNCHANGED <<cvars, xvars>>
    \/ \E r \in Requests : AttemptSucceeds(r) /\ UNCHANGED <<cvars, xvars>>
    \/ \E r \in Requests, o \in CachedFailures :
          /\ now + CIRCUIT_BREAKER_RECOVERY_TIMEOUT <= MaxTime
          /\ AttemptFailsRetry(r, o) /\ UNCHANGED <<cvars, xvars>>
    \/ \E r \in Requests : SleepDone(r) /\ UNCHANGED <<cvars, xvars>>
    \/ \E r \in Requests, o \in CachedFailures :
          /\ now + CIRCUIT_BREAKER_RECOVERY_TIMEOUT <= MaxTime
          /\ AttemptFailsFinal(r, o) /\ UNCHANGED <<cvars, xvars>>

\* time passes, requests keep arriving, sleeps end and responses arrive
SpecRecovery ==
    /\ Init /\ [][NextRecovery]_vars
    /\ WF_vars(Tick(CIRCUIT_BREAKER_RECOVERY_TIMEOUT) /\ UNCHANGED <<cvars, xvars>>)
    /\ \A r \in Requests :
          /\ WF_vars((FetchBlocked(r, "xml") \/ FetchStart(r, "xml")) /\ UNCHANGED <<cvars, xvars>>)
          /\ WF_vars(SleepDone(r) /\ UNCHANGED <<cvars, xvars>>)
          /\ WF_vars(AttemptSucceeds(r) /\ UNCHANGED <<cvars, xvars>>)

\* C38: once attempts no longer fail and requests keep arriving, an Open breaker
\* becomes Closed and stays Closed, and no request is blocked any more
C38_OpenBreakerRecovers ==
    cb.state = "open" ~> [](cb.state = "closed" /\ (ev.op = "can_execute" => ev.allowed))

\* the trial call admitted recovery_timeout after the last failure has closed
\* the breaker
C38_Witness ==
    /\ ev.op = "record_success" /\ ev.pre = "half_open"
    /\ cb.state = "closed"
    /\ now - cb.last_failure_time >= CIRCUIT_BREAKER_RECOVERY_TIMEOUT


\* ------------------------------------------------------------------ C39
\* C39: cached_fetch has no single-flight guard.  A call whose lookup misses
\* while another call is fetching the same key starts a fetch of its own, and
\* every successful return overwrites the entry: what the cache holds is the
\* tuple, the expiry and the headers of the call that stored last.
C39_EachMissFetchesLastStoreStays ==
    [][/\ (/\ hist'.gets = hist.gets + 1
           /\ cev'.op # "cached_hit"
           /\ \E x \in Requests : cf[x].pc = "fetch" /\ cf[x].key = cev'.key)
          => /\ hist'.fetches = hist.fetches + 1
             /\ cev'.op = "cached_miss"
                  => \E r \in Requests : /\ cf[r].pc = "idle"
                                         /\ cf'[r].pc = "fetch"
                                         /\ req'[r].pc # "idle"
       /\ (/\ hist'.gets = hist.gets
           /\ cev'.op = "cached_return"
           /\ cev' # cev \/ cf' # cf
           /\ should_cache(cev'.value))
          => /\ HasLink(cache', cev'.key)
             /\ LinkOf(cache', cev'.key) = Link(cev'.key, cev'.value, now + cache'.ttl)
             /\ \E r \in Requests : /\ cf[r].pc = "fetch"
                                    /\ cf'[r].pc = "idle"
                                    /\ applied'.under = applied.headers[r]
                                    /\ applied'.at = now]_vars

\* the two lookups have both missed, the first call has stored its tuple and the
\* second is still fetching
C39_Witness ==
    /\ hist.gets = 2
    /\ hist.fetches = 2
    /\ cf["r1"].pc = "idle"
    /\ cf["r2"].pc = "fetch"
    /\ cf["r2"].key = "k1"
    /\ cev.op = "cached_return"
    /\ should_cache(cev.value)
    /\ HasLink(cache, "k1")
    /\ applied.under = "H1"
    /\ applied.headers["r2"] = "H2"

\* ------------------------------------------------------------------ C40
\* C40: the key of cached_fetch_json is made of the url and the params alone.
\* While the tuple stored by a successful call is within its TTL, a call for the
\* same url and params is a hit whatever its headers: it returns the stored
\* body, the one fetched under the headers of the storing call, and no fetch
\* is made.
C40_HeadersNotInKey ==
    [][(/\ applied.fn # "none"
        /\ applied.under # "none"
        /\ now < applied.at + cache.ttl
        /\ hist'.gets = hist.gets + 1)
       => /\ cev'.op = "cached_hit"
          /\ should_cache(cev'.value)
          /\ cev'.value = LinkOf(cache, cev'.key).value
          /\ hist'.fetches = hist.fetches
          /\ req' = req
          /\ ev' = ev
          /\ applied'.under = applied.under]_vars

\* the call with H1 fetched and stored; the call with H2 was a hit
C40_Witness ==
    /\ hist.gets = 2
    /\ hist.fetches = 1
    /\ applied.fn # "none"
    /\ applied.headers["r1"] = "H1"
    /\ applied.headers["r2"] = "H2"
    /\ applied.under = "H1"
    /\ cev.op = "cached_hit"
    /\ should_cache(cev.value)
    /\ \A r \in Requests : cf[r].pc = "idle"

====
